---- MODULE Spec2Model ----
(***************************************************************************)
(* A model of ruscv: the RV32I assembler pipeline (symbol table, encoder)  *)
(* and the simulated processor (memory, decoder, execution engine).        *)
(*                                                                         *)
(* 32-bit values.  A u32 (or the bit pattern of an i32) is the pair        *)
(* <<hi, lo>> of its two 16-bit halves, so that every 32-bit operation of  *)
(* the source is computed exactly, with its wrap-around, on small          *)
(* integers.  An i32 the source handles as a number (an immediate) is an   *)
(* integer in -2^31 .. 2^31-1.                                             *)
(***************************************************************************)
EXTENDS Integers, Sequences, FiniteSets, TLC

VARIABLES
    \* ---- Processor (processor.rs) ----
    pc,             \* Processor.pc
    registers,      \* Processor.registers : [0..31 -> u32]
    memory,         \* Processor.memory : [text, data, stack]
    outcome,        \* what the last call returned ("none" before any call)
    op,             \* the last call: "new", "load", "step", "read_byte", "write_byte"
    arg,            \* the arguments of the last call
    instruction,    \* step's local `instruction`: what the last step decoded
    nloads,         \* number of load calls made so far (bounds the exploration)
    ncalls,         \* number of Memory calls made so far (bounds the exploration)
    overflow_checks,\* the build profile: TRUE when integer overflow panics
                    \* (a debug build), FALSE when it wraps (a release build)
    \* ---- the compile pipeline (parser.rs, symbols.rs, assembler.rs) ----
    statements,     \* the parsed program: a sequence of Statement
    symbol_table,   \* the SymbolTable
    build_result,   \* what SymbolTable::build returned
    assembler,      \* the Assembler: text_bin, data_bin, debug_info
    asm_result,     \* what Assembler::assemble returned
    nadds,          \* number of direct add_label calls so far (bounds the exploration)
    \* ---- the application (tui.rs) ----
    editor,         \* App.editor: the source text, as the tokens tokenize gives
    active_pane,    \* App.active_pane
    mode,           \* App.mode: "Editing", "Stepping" or "Running"
    logs,           \* App.logs
    handler         \* the key handler run_app is in: "F5" inside the run loop

cpuVars == <<pc, registers, memory, outcome, op, arg, instruction, nloads, ncalls,
            overflow_checks>>
asmVars == <<statements, symbol_table, build_result, assembler, asm_result, nadds>>
appVars == <<editor, active_pane, mode, logs, handler>>

----------------------------------------------------------------------------
\* Bounds of the exploration (not program constants).
MaxLoads    == 2    \* load calls in one behaviour
MaxMemCalls == 2    \* read_byte / write_byte calls in one behaviour
MaxAdds     == 3    \* direct add_label calls in one behaviour
MaxSymStmts == 4    \* statements of a program given to the symbol pass alone
MaxAsmStmts == 3    \* statements of a program given to both passes
MaxTokens   == 4    \* tokens, before Eof, of a stream given to the parser
MaxLogs     == 3    \* log entries after which run_app reads no further key

----------------------------------------------------------------------------
\* 32-bit words as <<hi, lo>>.

Half == 256 * 256

\* the element of a singleton; The({e(x) : x \in {v}}) names the value of v
\* as x in e, which is then computed once
The(S) == CHOOSE x \in S : TRUE

\* n as u32, for 0 <= n < 2^31
U32(n) == <<n \div Half, n % Half>>

ZERO == <<0, 0>>

\* `x as u32` for an i32 x: the two's-complement bit pattern
AsU32(i) ==
    IF i >= 0 THEN U32(i)
    ELSE LET m == -(i + 1)      \* i = ~m
         IN  <<65535 - (m \div Half), 65535 - (m % Half)>>

\* `w as i32` for a u32 w: the signed reading of the bit pattern
AsI32(w) ==
    IF w[1] < 32768 THEN w[1] * Half + w[2]
    ELSE -((65535 - w[1]) * Half + (65535 - w[2])) - 1

wrapping_add(a, b) ==
    LET lo == a[2] + b[2]
        hi == a[1] + b[1] + (lo \div Half)
    IN  <<hi % Half, lo % Half>>

Not32(a) == <<65535 - a[1], 65535 - a[2]>>

wrapping_sub(a, b) == wrapping_add(wrapping_add(a, Not32(b)), <<0, 1>>)

\* 2^k for 0 <= k <= 16
Pow2(k) ==
    CASE k = 0 -> 1 [] k = 1 -> 2 [] k = 2 -> 4 [] k = 3 -> 8
      [] k = 4 -> 16 [] k = 5 -> 32 [] k = 6 -> 64 [] k = 7 -> 128
      [] k = 8 -> 256 [] k = 9 -> 512 [] k = 10 -> 1024 [] k = 11 -> 2048
      [] k = 12 -> 4096 [] k = 13 -> 8192 [] k = 14 -> 16384
      [] k = 15 -> 32768 [] k = 16 -> 65536

\* u32 >> k (logical), 0 <= k <= 31
Shr(w, k) ==
    IF k >= 16 THEN <<0, w[1] \div Pow2(k - 16)>>
    ELSE <<w[1] \div Pow2(k),
           (w[2] \div Pow2(k)) + (w[1] % Pow2(k)) * Pow2(16 - k)>>

\* u32 << k (bits shifted out are lost), 0 <= k <= 31
Shl(w, k) ==
    IF k >= 16 THEN <<(w[2] % Pow2(32 - k)) * Pow2(k - 16), 0>>
    ELSE <<((w[1] % Pow2(16 - k)) * Pow2(k)) + (w[2] \div Pow2(16 - k)),
           (w[2] % Pow2(16 - k)) * Pow2(k)>>

\* i32 >> k (arithmetic), 0 <= k <= 31, on the bit pattern
Sar(w, k) ==
    IF w[1] < 32768 THEN Shr(w, k)
    ELSE Not32(Shr(Not32(w), k))

RECURSIVE And16(_, _, _)
And16(a, b, n) ==
    IF n = 0 THEN 0
    ELSE (IF a % 2 = 1 /\ b % 2 = 1 THEN 1 ELSE 0)
         + 2 * And16(a \div 2, b \div 2, n - 1)

RECURSIVE Or16(_, _, _)
Or16(a, b, n) ==
    IF n = 0 THEN 0
    ELSE (IF a % 2 = 1 \/ b % 2 = 1 THEN 1 ELSE 0)
         + 2 * Or16(a \div 2, b \div 2, n - 1)

RECURSIVE Xor16(_, _, _)
Xor16(a, b, n) ==
    IF n = 0 THEN 0
    ELSE (IF a % 2 # b % 2 THEN 1 ELSE 0)
         + 2 * Xor16(a \div 2, b \div 2, n - 1)

BitAnd(a, b) ==
    The({ <<And16(x[1], y[1], 16), And16(x[2], y[2], 16)>> : x \in {a}, y \in {b} })
BitOr(a, b) ==
    The({ <<Or16(x[1], y[1], 16), Or16(x[2], y[2], 16)>> : x \in {a}, y \in {b} })
BitXor(a, b) ==
    The({ <<Xor16(x[1], y[1], 16), Xor16(x[2], y[2], 16)>> : x \in {a}, y \in {b} })

\* unsigned a < b
LtU(a, b) == a[1] < b[1] \/ (a[1] = b[1] /\ a[2] < b[2])
\* signed a < b
LtS(a, b) == AsI32(a) < AsI32(b)

\* (w >> k) & (2^n - 1): the n-bit field of w at bit k, as an integer, n <= 16
Field(w, k, n) == Shr(w, k)[2] % Pow2(n)

\* u32::to_le_bytes / u32::from_le_bytes
\* most significant byte first
to_be_bytes(w) == <<w[1] \div 256, w[1] % 256, w[2] \div 256, w[2] % 256>>

to_le_bytes(w) == <<w[2] % 256, w[2] \div 256, w[1] % 256, w[1] \div 256>>
from_le_bytes(b) == <<b[4] * 256 + b[3], b[2] * 256 + b[1]>>

Ok(v)  == [ok |-> TRUE, val |-> v]
Err(e) == [ok |-> FALSE, err |-> e]

----------------------------------------------------------------------------
\* config.rs

NUM_REGISTERS == 32
TEXT_BASE  == <<64, 0>>            \* 0x0040_0000
DATA_BASE  == <<4097, 0>>          \* 0x1001_0000
STACK_BASE == <<32767, 65535>>     \* 0x7FFF_FFFF
STACK_SIZE == 1024 * 1024

----------------------------------------------------------------------------
\* Memory (processor.rs).  text and data are the byte vectors; the stack
\* vector, STACK_SIZE zero bytes at construction, is kept as its length and
\* the map of the offsets that hold a non-zero byte.

OutOfBounds(address) == [tag |-> "MemoryFault", fault |-> "OutOfBounds", address |-> address]

\* address >= base && address < base + len
InSegment(address, base, len) ==
    /\ ~LtU(address, base)
    /\ LtU(address, wrapping_add(base, U32(len)))

\* (address - base) as usize, for an address of the segment
SegIndex(address, base) == AsI32(wrapping_sub(address, base))

StackGet(stack, i) == IF i \in DOMAIN stack THEN stack[i] ELSE 0

StackPut(stack, i, v) ==
    LET D == IF v = 0 THEN DOMAIN stack \ {i} ELSE DOMAIN stack \cup {i}
    IN  [j \in D |-> IF j = i THEN v ELSE stack[j]]

read_byte(m, address) ==
    IF InSegment(address, m.text_base, Len(m.text))
    THEN Ok(m.text[SegIndex(address, m.text_base) + 1])
    ELSE IF InSegment(address, m.data_base, Len(m.data))
    THEN Ok(m.data[SegIndex(address, m.data_base) + 1])
    ELSE IF InSegment(address, m.stack_base, m.stack_len)
    THEN Ok(StackGet(m.stack, SegIndex(address, m.stack_base)))
    ELSE Err(OutOfBounds(address))

\* write_byte returns the Result and leaves the memory as written: [res, mem]
\* write_byte without its final else arm: an address outside every segment is
\* accepted and dropped
write_byte_unchecked(m, address, value) ==
    IF InSegment(address, m.text_base, Len(m.text))
    THEN [res |-> Ok("unit"),
          mem |-> [m EXCEPT !.text[SegIndex(address, m.text_base) + 1] = value]]
    ELSE IF InSegment(address, m.data_base, Len(m.data))
    THEN [res |-> Ok("unit"),
          mem |-> [m EXCEPT !.data[SegIndex(address, m.data_base) + 1] = value]]
    ELSE IF InSegment(address, m.stack_base, m.stack_len)
    THEN [res |-> Ok("unit"),
          mem |-> [m EXCEPT !.stack = StackPut(m.stack, SegIndex(address, m.stack_base), value)]]
    ELSE [res |-> Ok("unit"), mem |-> m]

write_byte(m, address, value) ==
    IF InSegment(address, m.text_base, Len(m.text))
    THEN [res |-> Ok("unit"),
          mem |-> [m EXCEPT !.text[SegIndex(address, m.text_base) + 1] = value]]
    ELSE IF InSegment(address, m.data_base, Len(m.data))
    THEN [res |-> Ok("unit"),
          mem |-> [m EXCEPT !.data[SegIndex(address, m.data_base) + 1] = value]]
    ELSE IF InSegment(address, m.stack_base, m.stack_len)
    THEN [res |-> Ok("unit"),
          mem |-> [m EXCEPT !.stack = StackPut(m.stack, SegIndex(address, m.stack_base), value)]]
    ELSE [res |-> Err(OutOfBounds(address)), mem |-> m]

\* address + n for the n-th byte of a multi-byte access (n = 1..3)
ByteAddr(address, n) == wrapping_add(address, U32(n))

\* The bytes of a multi-byte write go out one by one; the first fault ends
\* the write and the bytes already written stay written.
RECURSIVE write_bytes(_, _, _, _)
write_bytes(m, address, bytes, n) ==
    IF n > Len(bytes) THEN [res |-> Ok("unit"), mem |-> m]
    ELSE The({ IF w.res.ok THEN write_bytes(w.mem, address, bytes, n + 1) ELSE w :
               w \in {write_byte(m, ByteAddr(address, n - 1), bytes[n])} })

\* write_half that writes a third byte, 0
write_half_wide(m, address, value) ==
    write_bytes(m, address, <<value % 256, value \div 256, 0>>, 1)

\* value: the low 16 bits of a register, as an integer
write_half(m, address, value) ==
    write_bytes(m, address, <<value % 256, value \div 256>>, 1)

write_word(m, address, value) ==
    write_bytes(m, address, to_le_bytes(value), 1)

\* read_half with the two bytes assembled in the other order
read_half_be(m, address) ==
    LET byte0 == read_byte(m, address) IN
    IF ~byte0.ok THEN byte0 ELSE
    LET byte1 == read_byte(m, ByteAddr(address, 1)) IN
    IF ~byte1.ok THEN byte1 ELSE
    Ok(byte0.val * 256 + byte1.val)

read_half(m, address) ==
    LET byte0 == read_byte(m, address) IN
    IF ~byte0.ok THEN byte0 ELSE
    LET byte1 == read_byte(m, ByteAddr(address, 1)) IN
    IF ~byte1.ok THEN byte1 ELSE
    Ok(byte1.val * 256 + byte0.val)

read_word(m, address) ==
    LET byte0 == read_byte(m, address) IN
    IF ~byte0.ok THEN byte0 ELSE
    LET byte1 == read_byte(m, ByteAddr(address, 1)) IN
    IF ~byte1.ok THEN byte1 ELSE
    LET byte2 == read_byte(m, ByteAddr(address, 2)) IN
    IF ~byte2.ok THEN byte2 ELSE
    LET byte3 == read_byte(m, ByteAddr(address, 3)) IN
    IF ~byte3.ok THEN byte3 ELSE
    Ok(from_le_bytes(<<byte0.val, byte1.val, byte2.val, byte3.val>>))


----------------------------------------------------------------------------
\* The decoder (processor.rs).  A decoded Instruction is a record whose op
\* is the variant and whose other fields are the variant's fields; imm is
\* the i32 as a number, shamt and the register indices are integers.

IllegalInstruction == [tag |-> "IllegalInstruction"]
StepOk == [tag |-> "Ok"]

Rd(mi)    == Field(mi, 7, 5)
Rs1(mi)   == Field(mi, 15, 5)
Rs2(mi)   == Field(mi, 20, 5)
Func3(mi) == Field(mi, 12, 3)
Func7(mi) == Field(mi, 25, 7)

RType(name, mi) == Ok([op |-> name, rd |-> Rd(mi), rs1 |-> Rs1(mi), rs2 |-> Rs2(mi)])

decode_r_type(mi) ==
    LET func3 == Func3(mi)
        func7 == Func7(mi)
    IN  CASE func3 = 0 /\ func7 = 0  -> RType("Add", mi)
          [] func3 = 0 /\ func7 = 32 -> RType("Sub", mi)
          [] func3 = 4 /\ func7 = 0  -> RType("Xor", mi)
          [] func3 = 6 /\ func7 = 0  -> RType("Or", mi)
          [] func3 = 7 /\ func7 = 0  -> RType("And", mi)
          [] func3 = 1 /\ func7 = 0  -> RType("Sll", mi)
          [] func3 = 5 /\ func7 = 0  -> RType("Srl", mi)
          [] func3 = 5 /\ func7 = 32 -> RType("Sra", mi)
          [] func3 = 2 /\ func7 = 0  -> RType("Slt", mi)
          [] func3 = 3 /\ func7 = 0  -> RType("Sltu", mi)
          [] OTHER -> Err(IllegalInstruction)

\* (memory_instruction as i32) >> 20
ImmI(mi) == AsI32(Sar(mi, 20))

IType(name, mi) == Ok([op |-> name, rd |-> Rd(mi), rs1 |-> Rs1(mi), imm |-> ImmI(mi)])

decode_i_shift(mi) ==
    LET func7 == Func7(mi)
        shamt == Field(mi, 20, 5)
        func3 == Func3(mi)
        Shift(name) == Ok([op |-> name, rd |-> Rd(mi), rs1 |-> Rs1(mi), shamt |-> shamt])
    IN  CASE func3 = 1 /\ func7 = 0  -> Shift("Slli")
          [] func3 = 5 /\ func7 = 0  -> Shift("Srli")
          [] func3 = 5 /\ func7 = 32 -> Shift("Srai")
          [] OTHER -> Err(IllegalInstruction)

decode_i_type(mi) ==
    LET func3 == Func3(mi)
    IN  CASE func3 = 0 -> IType("Addi", mi)
          [] func3 = 4 -> IType("Xori", mi)
          [] func3 = 6 -> IType("Ori", mi)
          [] func3 = 7 -> IType("Andi", mi)
          [] func3 = 1 -> decode_i_shift(mi)
          [] func3 = 5 -> decode_i_shift(mi)
          [] func3 = 2 -> IType("Slti", mi)
          [] func3 = 3 -> IType("Sltiu", mi)
          [] OTHER -> Err(IllegalInstruction)

decode_load_type(mi) ==
    LET func3 == Func3(mi)
    IN  CASE func3 = 0 -> IType("Lb", mi)
          [] func3 = 1 -> IType("Lh", mi)
          [] func3 = 2 -> IType("Lw", mi)
          [] func3 = 4 -> IType("Lbu", mi)
          [] func3 = 5 -> IType("Lhu", mi)
          [] OTHER -> Err(IllegalInstruction)

decode_s_type(mi) ==
    LET imm_11_5 == Sar(mi, 25)                 \* (mi as i32) >> 25
        imm_4_0  == U32(Field(mi, 7, 5))
        imm      == AsI32(BitOr(Shl(imm_11_5, 5), imm_4_0))
        func3    == Func3(mi)
        SType(name) == Ok([op |-> name, rs1 |-> Rs1(mi), rs2 |-> Rs2(mi), imm |-> imm])
    IN  CASE func3 = 0 -> SType("Sb")
          [] func3 = 1 -> SType("Sh")
          [] func3 = 2 -> SType("Sw")
          [] OTHER -> Err(IllegalInstruction)

decode_b_type(mi) ==
    LET imm_12   == U32(Field(mi, 31, 1))
        imm_10_5 == U32(Field(mi, 25, 6))
        imm_4_1  == U32(Field(mi, 8, 4))
        imm_11   == U32(Field(mi, 7, 1))
        imm0     == BitOr(BitOr(Shl(imm_12, 12), Shl(imm_11, 11)),
                          BitOr(Shl(imm_10_5, 5), Shl(imm_4_1, 1)))
        imm      == AsI32(Sar(Shl(imm0, 19), 19))
        func3    == Func3(mi)
        BType(name) == Ok([op |-> name, rs1 |-> Rs1(mi), rs2 |-> Rs2(mi), imm |-> imm])
    IN  CASE func3 = 0 -> BType("Beq")
          [] func3 = 1 -> BType("Bne")
          [] func3 = 4 -> BType("Blt")
          [] func3 = 5 -> BType("Bge")
          [] func3 = 6 -> BType("Bltu")
          [] func3 = 7 -> BType("Bgeu")
          [] OTHER -> Err(IllegalInstruction)

decode_u_type(mi) ==
    LET imm    == AsI32(BitAnd(mi, <<65535, 61440>>))   \* & 0xFFFFF000
        opcode == Field(mi, 0, 7)
    IN  CASE opcode = 55 -> Ok([op |-> "Lui", rd |-> Rd(mi), imm |-> imm])
          [] opcode = 23 -> Ok([op |-> "Auipc", rd |-> Rd(mi), imm |-> imm])
          [] OTHER -> Err(IllegalInstruction)

decode_j_type(mi) ==
    LET imm_20    == U32(Field(mi, 31, 1))
        imm_10_1  == U32(Field(mi, 21, 10))
        imm_11    == U32(Field(mi, 20, 1))
        imm_19_12 == U32(Field(mi, 12, 8))
        imm0      == BitOr(BitOr(Shl(imm_20, 20), Shl(imm_19_12, 12)),
                           BitOr(Shl(imm_11, 11), Shl(imm_10_1, 1)))
        imm       == AsI32(Sar(Shl(imm0, 11), 11))
    IN  Ok([op |-> "Jal", rd |-> Rd(mi), imm |-> imm])

decode_jalr_type(mi) ==
    IF Func3(mi) # 0 THEN Err(IllegalInstruction)
    ELSE Ok([op |-> "Jalr", rd |-> Rd(mi), rs1 |-> Rs1(mi), imm |-> ImmI(mi)])

decode_system_type(mi) ==
    LET imm == Field(mi, 20, 12)
    IN  CASE imm = 0 -> Ok([op |-> "Ecall"])
          [] imm = 1 -> Ok([op |-> "Ebreak"])
          [] OTHER -> Err(IllegalInstruction)

decode(mi) ==
    LET opcode == Field(mi, 0, 7)
    IN  CASE opcode = 51  -> decode_r_type(mi)        \* 0b0110011
          [] opcode = 19  -> decode_i_type(mi)        \* 0b0010011
          [] opcode = 3   -> decode_load_type(mi)     \* 0b0000011
          [] opcode = 35  -> decode_s_type(mi)        \* 0b0100011
          [] opcode = 99  -> decode_b_type(mi)        \* 0b1100011
          [] opcode = 111 -> decode_j_type(mi)        \* 0b1101111
          [] opcode = 103 -> decode_jalr_type(mi)     \* 0b1100111
          [] opcode = 55  -> decode_u_type(mi)        \* 0b0110111
          [] opcode = 23  -> decode_u_type(mi)        \* 0b0010111
          [] opcode = 115 -> decode_system_type(mi)   \* 0b1110011
          [] OTHER -> Err(IllegalInstruction)


----------------------------------------------------------------------------
\* The execution engine (processor.rs).  A Processor value is the record
\* [pc, registers, memory]; an operation that takes &mut self returns the
\* processor as it leaves it together with its result.

read_register(p, index) ==
    IF index = 0 THEN ZERO ELSE p.registers[index]

\* write_register without the test of the index
write_register_unguarded(p, index, value) ==
    [p EXCEPT !.registers[index] = value]

write_register(p, index, value) ==
    IF index = 0 THEN p
    ELSE [p EXCEPT !.registers[index] = value]

Bool32(b) == IF b THEN <<0, 1>> ELSE ZERO

\* the low 5 bits of a register: the shift amount
Low5(w) == w[2] % 32

\* self.read_register(rs1).wrapping_add(imm as u32)
EffAddr(p, i) == wrapping_add(read_register(p, i.rs1), AsU32(i.imm))

\* the next_pc execute starts from
NextPcSame(p) == p.pc

DefaultNextPc(p) == wrapping_add(p.pc, <<0, 4>>)

\* arms that write rd and fall through to the commit of next_pc
Alu(p, rd, value) ==
    [p |-> [write_register(p, rd, value) EXCEPT !.pc = DefaultNextPc(p)], res |-> StepOk]

SignExt8(b)  == IF b < 128 THEN <<0, b>> ELSE <<65535, 65280 + b>>
SignExt16(h) == IF h < 32768 THEN <<0, h>> ELSE <<65535, h>>
ZeroExt(v)   == <<0, v>>

\* the cast of a value read from memory to the u32 written to rd
Cast(conv, v) ==
    CASE conv = "i8 as u32"  -> SignExt8(v)
      [] conv = "i16 as u32" -> SignExt16(v)
      [] conv = "as u32"     -> ZeroExt(v)
      [] OTHER               -> v

\* loads whose fault still commits next_pc
Load_commit_pc(p, rd, r, conv) ==
    IF r.ok THEN Alu(p, rd, Cast(conv, r.val))
    ELSE [p |-> [p EXCEPT !.pc = DefaultNextPc(p)], res |-> r.err]

\* loads: `?` returns the fault before rd is written
Load(p, rd, r, conv) ==
    IF r.ok THEN Alu(p, rd, Cast(conv, r.val))
    ELSE [p |-> p, res |-> r.err]

\* stores: `?` returns the fault, the memory staying as write_* left it
Store(p, w) ==
    IF w.res.ok THEN [p |-> [p EXCEPT !.memory = w.mem, !.pc = DefaultNextPc(p)], res |-> StepOk]
    ELSE [p |-> [p EXCEPT !.memory = w.mem], res |-> w.res.err]

Branch(p, taken, imm) ==
    [p |-> [p EXCEPT !.pc = IF taken THEN wrapping_add(p.pc, AsU32(imm))
                            ELSE DefaultNextPc(p)],
     res |-> StepOk]


\* the arms of execute, r1 and r2 being the values of rs1 and rs2
Arm(p, i, r1, r2) ==
    CASE i.op = "Add"  -> Alu(p, i.rd, wrapping_add(r1, r2))
      [] i.op = "Sub"  -> Alu(p, i.rd, wrapping_sub(r1, r2))
      [] i.op = "Or"   -> Alu(p, i.rd, BitOr(r1, r2))
      [] i.op = "And"  -> Alu(p, i.rd, BitAnd(r1, r2))
      [] i.op = "Xor"  -> Alu(p, i.rd, BitXor(r1, r2))
      [] i.op = "Sll"  -> Alu(p, i.rd, Shl(r1, Low5(r2)))
      [] i.op = "Srl"  -> Alu(p, i.rd, Shr(r1, Low5(r2)))
      [] i.op = "Sra"  -> Alu(p, i.rd, Sar(r1, Low5(r2)))
      [] i.op = "Slt"  -> Alu(p, i.rd, Bool32(LtS(r1, r2)))
      [] i.op = "Sltu" -> Alu(p, i.rd, Bool32(LtU(r1, r2)))
      [] i.op = "Addi" -> Alu(p, i.rd, wrapping_add(r1, AsU32(i.imm)))
      [] i.op = "Xori" -> Alu(p, i.rd, BitXor(r1, AsU32(i.imm)))
      [] i.op = "Ori"  -> Alu(p, i.rd, BitOr(r1, AsU32(i.imm)))
      [] i.op = "Andi" -> Alu(p, i.rd, BitAnd(r1, AsU32(i.imm)))
      [] i.op = "Slli" -> Alu(p, i.rd, Shl(r1, i.shamt))
      [] i.op = "Srli" -> Alu(p, i.rd, Shr(r1, i.shamt))
      [] i.op = "Srai" -> Alu(p, i.rd, Sar(r1, i.shamt))
      [] i.op = "Slti" -> Alu(p, i.rd, Bool32(AsI32(r1) < i.imm))
      [] i.op = "Sltiu" -> Alu(p, i.rd, Bool32(LtU(r1, AsU32(i.imm))))
      [] i.op = "Lb"   -> Load(p, i.rd, read_byte(p.memory, EffAddr(p, i)), "i8 as u32")
      [] i.op = "Lh"   -> Load(p, i.rd, read_half(p.memory, EffAddr(p, i)), "i16 as u32")
      [] i.op = "Lw"   -> Load(p, i.rd, read_word(p.memory, EffAddr(p, i)), "u32")
      [] i.op = "Lbu"  -> Load(p, i.rd, read_byte(p.memory, EffAddr(p, i)), "as u32")
      [] i.op = "Lhu"  -> Load(p, i.rd, read_half(p.memory, EffAddr(p, i)), "as u32")
      [] i.op = "Sb"   -> Store(p, write_byte(p.memory, EffAddr(p, i), r2[2] % 256))
      [] i.op = "Sh"   -> Store(p, write_half(p.memory, EffAddr(p, i), r2[2]))
      [] i.op = "Sw"   -> Store(p, write_word(p.memory, EffAddr(p, i), r2))
      [] i.op = "Beq"  -> Branch(p, r1 = r2, i.imm)
      [] i.op = "Bne"  -> Branch(p, r1 # r2, i.imm)
      [] i.op = "Blt"  -> Branch(p, LtS(r1, r2), i.imm)
      [] i.op = "Bge"  -> Branch(p, ~LtS(r1, r2), i.imm)
      [] i.op = "Bltu" -> Branch(p, LtU(r1, r2), i.imm)
      [] i.op = "Bgeu" -> Branch(p, ~LtU(r1, r2), i.imm)
      [] i.op = "Jal"  ->
            [p |-> [write_register(p, i.rd, DefaultNextPc(p))
                      EXCEPT !.pc = wrapping_add(p.pc, AsU32(i.imm))],
             res |-> StepOk]
      [] i.op = "Jalr" ->
            \* rd is written first; rs1 is read from the registers after it
            LET q == write_register(p, i.rd, DefaultNextPc(p))
                target == wrapping_add(read_register(q, i.rs1), AsU32(i.imm))
            IN  [p |-> [q EXCEPT !.pc = <<target[1], target[2] - (target[2] % 2)>>],
                 res |-> StepOk]
      [] i.op = "Lui"   -> Alu(p, i.rd, AsU32(i.imm))
      [] i.op = "Auipc" -> Alu(p, i.rd, wrapping_add(p.pc, AsU32(i.imm)))
      [] OTHER -> [p |-> p, res |-> IllegalInstruction]   \* Ecall, Ebreak

\* execute with blt comparing as bltu does
execute_blt_unsigned(p, i) ==
    IF i.op = "Blt"
    THEN Branch(p, LtU(read_register(p, i.rs1), read_register(p, i.rs2)), i.imm)
    ELSE The({ Arm(p, i, r1, r2) :
               r1 \in {IF "rs1" \in DOMAIN i THEN read_register(p, i.rs1) ELSE ZERO},
               r2 \in {IF "rs2" \in DOMAIN i THEN read_register(p, i.rs2) ELSE ZERO} })

\* execute with the jalr target left unmasked (no `& !1`)
execute_jalr_unmasked(p, i) ==
    LET r == The({ Arm(p, i, r1, r2) :
                   r1 \in {IF "rs1" \in DOMAIN i THEN read_register(p, i.rs1) ELSE ZERO},
                   r2 \in {IF "rs2" \in DOMAIN i THEN read_register(p, i.rs2) ELSE ZERO} })
    IN  IF i.op = "Jalr"
        THEN [r EXCEPT !.p.pc = wrapping_add(read_register(p, i.rs1), AsU32(i.imm))]
        ELSE r

execute(p, i) ==
    The({ Arm(p, i, r1, r2) :
          r1 \in {IF "rs1" \in DOMAIN i THEN read_register(p, i.rs1) ELSE ZERO},
          r2 \in {IF "rs2" \in DOMAIN i THEN read_register(p, i.rs2) ELSE ZERO} })


Panic == [tag |-> "panic"]

\* fetch: the set of results the build can produce.  `self.pc - text_base`
\* overflows when pc < text_base: a panic with overflow checks, a wrapped
\* (huge) offset without, for which text.get(offset..offset + 4) is None.
fetch(p, checks) ==
    LET m == p.memory
        offset == wrapping_sub(p.pc, m.text_base)
        inText == Len(m.text) >= 4 /\ ~LtU(U32(Len(m.text) - 4), offset)
    IN  IF LtU(p.pc, m.text_base) /\ checks THEN [p |-> p, res |-> Panic]
        ELSE IF ~inText THEN [p |-> p, res |-> OutOfBounds(p.pc)]
        ELSE LET o == AsI32(offset)
             IN  [p |-> p, res |-> StepOk,
                  val |-> from_le_bytes(SubSeq(m.text, o + 1, o + 4))]

NoInstruction == Err([tag |-> "none"])

\* step: [p, res] as execute gives them, and instr, what decode returned
Executed(p, d) ==
    The({ [p |-> e.p, res |-> e.res, instr |-> d] : e \in {execute(p, d.val)} })

Decoded(p, f) ==
    The({ IF ~d.ok THEN [p |-> p, res |-> d.err, instr |-> d] ELSE Executed(p, d) :
          d \in {decode(f.val)} })

step(p, checks) ==
    The({ IF f.res # StepOk THEN [p |-> p, res |-> f.res, instr |-> NoInstruction]
          ELSE Decoded(p, f) :
          f \in {fetch(p, checks)} })

\* Processor::new
new(text_base, data_base, stack_base, stack_size) ==
    [pc |-> ZERO,
     registers |-> [r \in 0..(NUM_REGISTERS - 1) |-> ZERO],
     memory |-> [text |-> <<>>, data |-> <<>>, stack |-> <<>>, stack_len |-> stack_size,
                 text_base |-> text_base, data_base |-> data_base,
                 stack_base |-> stack_base]]

\* Processor::load
load(p, text, data) ==
    [p EXCEPT !.memory.text = text, !.memory.data = data, !.pc = p.memory.text_base]

----------------------------------------------------------------------------
\* parser.rs: the statements the two passes consume.

Register(n)      == [t |-> "Register", n |-> n]
Immediate(v)     == [t |-> "Immediate", v |-> v]
LabelRef(s)      == [t |-> "Label", s |-> s]
StringLiteral(s) == [t |-> "StringLiteral", s |-> s]
Memory(offset, reg) == [t |-> "Memory", offset |-> offset, reg |-> reg]

Instruction(name, ops) == [k |-> "Instruction", name |-> name, ops |-> ops]
Label(name)            == [k |-> "Label", name |-> name]
Directive(name, ops)   == [k |-> "Directive", name |-> name, ops |-> ops]

Statement(kind, line) == [kind |-> kind, line |-> line]

IsImmediate(ops, i) == Len(ops) >= i /\ ops[i].t = "Immediate"

----------------------------------------------------------------------------
\* symbols.rs

SymbolTable_new(text_base, data_base) ==
    [symbols |-> [n \in {} |-> ZERO], text_base |-> text_base, data_base |-> data_base]

get_address(self, label) ==
    IF label \in DOMAIN self.symbols THEN Ok(self.symbols[label]) ELSE Err(<<"None">>)

add_label(self, label, address) ==
    IF label \in DOMAIN self.symbols
    THEN [self |-> self, res |-> Err(<<"Error: Duplicated label", label>>)]
    ELSE [self |-> [self EXCEPT !.symbols =
                        [n \in DOMAIN self.symbols \cup {label} |->
                            IF n = label THEN address ELSE self.symbols[n]]],
          res |-> Ok("unit")]

\* u32 a + b and a - b: a panic where the build checks overflow, wrapped otherwise
add_u32(a, b, checks) ==
    IF checks /\ LtU(wrapping_add(a, b), a) THEN Panic ELSE Ok(wrapping_add(a, b))

sub_u32(a, b, checks) ==
    IF checks /\ LtU(a, b) THEN Panic ELSE Ok(wrapping_sub(a, b))

\* 2u32.pow(exp): 2^exp does not fit in 32 bits from exp = 32 on
pow2_u32(exp, checks) ==
    IF exp[1] > 0 \/ exp[2] >= 32
    THEN IF checks THEN Panic ELSE Ok(ZERO)
    ELSE Ok(Shl(<<0, 1>>, exp[2]))

\* the arm ".align" of calculate_directive_size, operand Immediate(pow)
align_size(pow, current_pc, checks) ==
    LET alignment == pow2_u32(AsU32(pow), checks)
    IN  IF alignment = Panic THEN Panic
        ELSE LET sum == add_u32(current_pc, alignment.val, checks)
             IN  IF sum = Panic THEN Panic
                 ELSE LET top  == sub_u32(sum.val, <<0, 1>>, checks)
                          mask == sub_u32(alignment.val, <<0, 1>>, checks)
                      IN  IF top = Panic \/ mask = Panic THEN Panic
                          ELSE sub_u32(BitAnd(top.val, Not32(mask.val)), current_pc, checks)

RECURSIVE string_sizes(_, _, _)
string_sizes(name, operands, i) ==
    IF i > Len(operands) THEN Ok(ZERO)
    ELSE IF operands[i].t # "StringLiteral"
    THEN Err(<<"Directive requires a string literal", name>>)
    ELSE LET rest == string_sizes(name, operands, i + 1)
             here == Len(operands[i].s) + (IF name # ".ascii" THEN 1 ELSE 0)
         IN  IF rest.ok THEN Ok(wrapping_add(U32(here), rest.val)) ELSE rest

calculate_directive_size(name, operands, current_pc, checks) ==
    CASE name = ".align" ->
            IF IsImmediate(operands, 1)
            THEN align_size(operands[1].v, current_pc, checks)
            ELSE Err(<<"Directive .align requieres a power of 2 parameter">>)
      [] name = ".word" -> Ok(U32(Len(operands) * 4))
      [] name = ".half" -> Ok(U32(Len(operands) * 2))
      [] name = ".byte" -> Ok(U32(Len(operands)))
      [] name \in {".ascii", ".asciz", ".string"} -> string_sizes(name, operands, 1)
      [] name = ".space" ->
            IF IsImmediate(operands, 1)
            THEN Ok(AsU32(operands[1].v))
            ELSE Err(<<"Directive .space requires an inmediate value">>)
      [] OTHER -> Ok(ZERO)

\* the locals of build: [self, text_offset, data_offset, current_section, res]
BuildStart(self) ==
    [self |-> self, text_offset |-> ZERO, data_offset |-> ZERO,
     current_section |-> ".text", res |-> Ok("unit")]

\* self.text_base + text_offset, or self.data_base + data_offset
SectionAddress(b, checks) ==
    IF b.current_section = ".text"
    THEN add_u32(b.self.text_base, b.text_offset, checks)
    ELSE add_u32(b.self.data_base, b.data_offset, checks)

\* a single offset shared by the two sections
AdvanceShared(b, size, checks) ==
    LET sum == add_u32(b.text_offset, size, checks)
    IN  IF sum = Panic THEN [b EXCEPT !.res = Panic]
        ELSE [b EXCEPT !.text_offset = sum.val, !.data_offset = sum.val]

\* text_offset += size, or data_offset += size
Advance(b, size, checks) ==
    LET old == IF b.current_section = ".text" THEN b.text_offset ELSE b.data_offset
        sum == add_u32(old, size, checks)
    IN  IF sum = Panic THEN [b EXCEPT !.res = Panic]
        ELSE IF b.current_section = ".text" THEN [b EXCEPT !.text_offset = sum.val]
        ELSE [b EXCEPT !.data_offset = sum.val]

\* one iteration of the loop of build
build_statement(b, stmt, checks) ==
    LET kind == stmt.kind
    IN  CASE kind.k = "Directive" /\ kind.name \in {".text", ".data"} ->
                [b EXCEPT !.current_section = kind.name]
          [] kind.k = "Label" ->
                LET address == SectionAddress(b, checks)
                IN  IF address = Panic THEN [b EXCEPT !.res = Panic]
                    ELSE LET r == add_label(b.self, kind.name, address.val)
                         IN  [b EXCEPT !.self = r.self, !.res = r.res]
          [] kind.k = "Instruction" ->
                IF b.current_section = ".text"
                THEN Advance(b, <<0, 4>>, checks)
                ELSE [b EXCEPT !.res = Err(<<"Error: Instruction found on .data section">>)]
          [] OTHER ->
                LET current_pc == SectionAddress(b, checks)
                IN  IF current_pc = Panic THEN [b EXCEPT !.res = Panic]
                    ELSE LET size == calculate_directive_size(kind.name, kind.ops,
                                                              current_pc.val, checks)
                         IN  IF size = Panic \/ ~size.ok THEN [b EXCEPT !.res = size]
                             ELSE Advance(b, size.val, checks)

RECURSIVE build_loop(_, _, _, _)
build_loop(b, stmts, i, checks) ==
    IF i > Len(stmts) THEN b
    ELSE The({ IF n.res = Ok("unit") THEN build_loop(n, stmts, i + 1, checks) ELSE n :
               n \in {build_statement(b, stmts[i], checks)} })

\* SymbolTable::build: the table as build leaves it, and what build returns
build(self, stmts, checks) ==
    LET b == build_loop(BuildStart(self), stmts, 1, checks)
    IN  [self |-> b.self, res |-> b.res]

----------------------------------------------------------------------------
\* assembler.rs

AssemblerError(line, message) == [line |-> line, message |-> message]

\* (x as u32) << k for a field x given as an integer
Bits(x, k) == Shl(U32(x), k)

Or3(a, b, c) == BitOr(a, BitOr(b, c))

\* (imm_val >> k) & (2^n - 1) on an i32
ImmBits(imm_val, k, n) == Sar(AsU32(imm_val), k)[2] % Pow2(n)

IsRegister(ops, i) == Len(ops) >= i /\ ops[i].t = "Register"

encode_r_type(opcode, funct3, funct7, ops) ==
    IF Len(ops) = 3 /\ IsRegister(ops, 1) /\ IsRegister(ops, 2) /\ IsRegister(ops, 3)
    THEN Ok(BitOr(Or3(Bits(funct7, 25), Bits(ops[3].n, 20), Bits(ops[2].n, 15)),
                  Or3(Bits(funct3, 12), Bits(ops[1].n, 7), U32(opcode))))
    ELSE Err(<<"Invalid operands for R-type instruction: expected 3 registers (rd, rs1, rs2)">>)

encode_i_type(opcode, funct3, ops) ==
    IF Len(ops) = 3 /\ IsRegister(ops, 1) /\ IsRegister(ops, 2) /\ IsImmediate(ops, 3)
    THEN LET imm_val == ops[3].v
         IN  Ok(BitOr(BitOr(Shl(AsU32(imm_val), 20), Bits(ops[2].n, 15)),
                      Or3(Bits(funct3, 12), Bits(ops[1].n, 7), U32(opcode))))
    ELSE Err(<<"Invalid operands for I-type instruction: expected register, register, immediate">>)

encode_i_shift(opcode, funct3, funct7, ops) ==
    IF Len(ops) = 3 /\ IsRegister(ops, 1) /\ IsRegister(ops, 2) /\ IsImmediate(ops, 3)
    THEN LET shamt == ops[3].v
         IN  IF shamt < 0 \/ shamt > 31
             THEN Err(<<"Shift amount out of range (0-31)", ToString(shamt)>>)
             ELSE Ok(BitOr(Or3(Bits(funct7, 25), Bits(shamt, 20), Bits(ops[2].n, 15)),
                           Or3(Bits(funct3, 12), Bits(ops[1].n, 7), U32(opcode))))
    ELSE Err(<<"Invalid operands for shift instruction: expected rd, rs1, shamt">>)

encode_s_type(opcode, funct3, ops, sym_table) ==
    IF Len(ops) = 2 /\ IsRegister(ops, 1) /\ ops[2].t = "Memory"
    THEN LET offset  == ops[2].offset
             reg     == ops[2].reg
             \* the bit pattern of imm_val
             imm_val == IF offset.t = "Immediate" THEN Ok(AsU32(offset.v))
                        ELSE get_address(sym_table, offset.s)
         IN  IF ~imm_val.ok THEN Err(<<"Unknown label", offset.s>>)
             ELSE LET imm      == BitAnd(imm_val.val, <<0, 4095>>)
                      imm_11_5 == Field(imm, 5, 7)
                      imm_4_0  == Field(imm, 0, 5)
                  IN  Ok(BitOr(Or3(Bits(imm_11_5, 25), Bits(ops[1].n, 20), Bits(reg, 15)),
                               Or3(Bits(funct3, 12), Bits(imm_4_0, 7), U32(opcode))))
    ELSE Err(<<"Invalid operands for S-type instruction: expected reg, offset(reg)">>)

\* encode_b_type with bit 11 of the immediate left out of the word
encode_b_type_without_imm_11(opcode, funct3, ops) ==
    IF Len(ops) = 3 /\ IsRegister(ops, 1) /\ IsRegister(ops, 2) /\ IsImmediate(ops, 3)
    THEN LET imm_val  == ops[3].v
             imm_12   == ImmBits(imm_val, 12, 1)
             imm_10_5 == ImmBits(imm_val, 5, 6)
             imm_4_1  == ImmBits(imm_val, 1, 4)
         IN  Ok(BitOr(BitOr(Or3(Bits(imm_12, 31), Bits(imm_10_5, 25), Bits(ops[2].n, 20)),
                            Or3(Bits(ops[1].n, 15), Bits(funct3, 12), Bits(imm_4_1, 8))),
                      U32(opcode)))
    ELSE Err(<<"Invalid operands for B-type instruction: expected register, register, immediate">>)

encode_b_type(opcode, funct3, ops) ==
    IF Len(ops) = 3 /\ IsRegister(ops, 1) /\ IsRegister(ops, 2) /\ IsImmediate(ops, 3)
    THEN LET imm_val  == ops[3].v
             imm_12   == ImmBits(imm_val, 12, 1)
             imm_10_5 == ImmBits(imm_val, 5, 6)
             imm_4_1  == ImmBits(imm_val, 1, 4)
             imm_11   == ImmBits(imm_val, 11, 1)
         IN  Ok(BitOr(BitOr(Or3(Bits(imm_12, 31), Bits(imm_10_5, 25), Bits(ops[2].n, 20)),
                            Or3(Bits(ops[1].n, 15), Bits(funct3, 12), Bits(imm_4_1, 8))),
                      BitOr(Bits(imm_11, 7), U32(opcode))))
    ELSE Err(<<"Invalid operands for B-type instruction: expected register, register, immediate">>)

encode_j_type(opcode, ops) ==
    IF Len(ops) = 2 /\ IsRegister(ops, 1) /\ IsImmediate(ops, 2)
    THEN LET imm_val   == ops[2].v
             imm_20    == ImmBits(imm_val, 20, 1)
             imm_10_1  == ImmBits(imm_val, 1, 10)
             imm_11    == ImmBits(imm_val, 11, 1)
             imm_19_12 == ImmBits(imm_val, 12, 8)
         IN  Ok(BitOr(Or3(Bits(imm_20, 31), Bits(imm_19_12, 12), Bits(imm_11, 20)),
                      Or3(Bits(imm_10_1, 21), Bits(ops[1].n, 7), U32(opcode))))
    ELSE Err(<<"Invalid operands for J-type instruction: expected register, immediate">>)

\* mnemonic :> <<funct3, funct7>> (opcode 0x33), <<opcode, funct3>>, ...
R_TYPE == ("add" :> <<0, 0>>) @@ ("sub" :> <<0, 32>>) @@ ("sll" :> <<1, 0>>)
            @@ ("slt" :> <<2, 0>>) @@ ("sltu" :> <<3, 0>>) @@ ("xor" :> <<4, 0>>)
            @@ ("srl" :> <<5, 0>>) @@ ("sra" :> <<5, 32>>) @@ ("or" :> <<6, 0>>)
            @@ ("and" :> <<7, 0>>)
I_TYPE == ("addi" :> <<19, 0>>) @@ ("slti" :> <<19, 2>>) @@ ("sltiu" :> <<19, 3>>)
            @@ ("xori" :> <<19, 4>>) @@ ("ori" :> <<19, 6>>) @@ ("andi" :> <<19, 7>>)
            @@ ("lb" :> <<3, 0>>) @@ ("lh" :> <<3, 1>>) @@ ("lw" :> <<3, 2>>)
            @@ ("lbu" :> <<3, 4>>) @@ ("lhu" :> <<3, 5>>) @@ ("jalr" :> <<103, 0>>)
I_SHIFT == ("slli" :> <<1, 0>>) @@ ("srli" :> <<5, 0>>) @@ ("srai" :> <<5, 32>>)
S_TYPE == ("sb" :> 0) @@ ("sh" :> 1) @@ ("sw" :> 2)
B_TYPE == ("beq" :> 0) @@ ("bne" :> 1) @@ ("blt" :> 4) @@ ("bge" :> 5)
            @@ ("bltu" :> 6) @@ ("bgeu" :> 7)

encode_instruction(name, ops, sym_table, current_pc) ==
    CASE name \in DOMAIN R_TYPE  -> encode_r_type(51, R_TYPE[name][1], R_TYPE[name][2], ops)
      [] name \in DOMAIN I_TYPE  -> encode_i_type(I_TYPE[name][1], I_TYPE[name][2], ops)
      [] name \in DOMAIN I_SHIFT -> encode_i_shift(19, I_SHIFT[name][1], I_SHIFT[name][2], ops)
      [] name \in DOMAIN S_TYPE  -> encode_s_type(35, S_TYPE[name], ops, sym_table)
      [] name \in DOMAIN B_TYPE  -> encode_b_type(99, B_TYPE[name], ops)
      [] name = "jal"            -> encode_j_type(111, ops)
      [] name = "ecall"          -> Ok(<<0, 115>>)      \* 0x00000073
      [] name = "ebreak"         -> Ok(<<16, 115>>)     \* 0x00100073
      [] name = "fence"          -> Ok(<<0, 15>>)       \* 0x0000000F
      [] OTHER -> Err(<<"Unsupported instruction", name>>)

emit_data_bytes(name, ops) ==
    IF name = ".word"
    THEN IF IsImmediate(ops, 1)
         THEN Ok(to_le_bytes(AsU32(ops[1].v)))
         ELSE Err(<<"Invalid operand for .word directive: expected immediate value">>)
    ELSE Err(<<"Unsupported directive", name>>)

Assembler_new == [text_bin |-> <<>>, data_bin |-> <<>>, address_to_source |-> <<>>]

\* HashMap::insert on address_to_source, kept as the sequence of its entries
\* in insertion order of the keys (raw_text, the rendering of the statement,
\* is not part of the model)
SourceInsert(map, addr, mapping) ==
    IF \E j \in 1..Len(map) : map[j].addr = addr
    THEN [j \in 1..Len(map) |->
            IF map[j].addr = addr THEN [addr |-> addr, mapping |-> mapping] ELSE map[j]]
    ELSE Append(map, [addr |-> addr, mapping |-> mapping])

\* the locals of assemble: [self, current_pc, data_pc, current_section, errors]
AssembleStart(self) ==
    [self |-> self, current_pc |-> <<64, 0>>, data_pc |-> <<4097, 0>>,
     current_section |-> ".text", errors |-> <<>>]

\* one iteration of the loop of assemble
assemble_statement(a, stmt, sym_table) ==
    LET addr == IF a.current_section = ".text" THEN a.current_pc ELSE a.data_pc
        kind == stmt.kind
        m == [a EXCEPT !.self.address_to_source =
                 SourceInsert(@, addr, [line |-> stmt.line, section |-> a.current_section])]
    IN  CASE kind.k = "Instruction" ->
                LET r == encode_instruction(kind.name, kind.ops, sym_table, a.current_pc)
                IN  IF r.ok
                    THEN [m EXCEPT !.self.text_bin = @ \o to_le_bytes(r.val),
                                   !.current_pc = wrapping_add(@, <<0, 4>>)]
                    ELSE [m EXCEPT !.errors = Append(@, AssemblerError(stmt.line, r.err))]
          [] kind.k = "Directive" ->
                IF kind.name \in {".text", ".data"}
                THEN [m EXCEPT !.current_section = kind.name]
                ELSE LET r == emit_data_bytes(kind.name, kind.ops)
                     IN  IF r.ok
                         THEN [m EXCEPT !.self.data_bin = @ \o r.val,
                                        !.data_pc = wrapping_add(@, U32(Len(r.val)))]
                         ELSE [m EXCEPT !.errors = Append(@, AssemblerError(stmt.line, r.err))]
          [] OTHER -> m

\* a loop that gives up at the first error
RECURSIVE assemble_until_error(_, _, _, _)
assemble_until_error(a, stmts, i, sym_table) ==
    IF i > Len(stmts) \/ a.errors # <<>> THEN a
    ELSE The({ assemble_until_error(n, stmts, i + 1, sym_table) :
               n \in {assemble_statement(a, stmts[i], sym_table)} })

RECURSIVE assemble_loop(_, _, _, _)
assemble_loop(a, stmts, i, sym_table) ==
    IF i > Len(stmts) THEN a
    ELSE The({ assemble_loop(n, stmts, i + 1, sym_table) :
               n \in {assemble_statement(a, stmts[i], sym_table)} })

\* Assembler::assemble: the assembler as it is left, and what assemble returns
assemble(self, stmts, sym_table) ==
    LET a == assemble_loop(AssembleStart(self), stmts, 1, sym_table)
    IN  [self |-> a.self,
         res |-> IF a.errors # <<>> THEN Err(a.errors) ELSE Ok("unit")]

----------------------------------------------------------------------------
\* The inputs of the exploration.

\* instruction words (the comment gives the word and its assembly)
WORD == [
    LUI_X1_DATA  |-> <<4097, 183>>,     \* 0x100100B7  lui  x1, 0x10010
    ADDI_X2_M1   |-> <<65520, 275>>,    \* 0xFFF00113  addi x2, x0, -1
    ADDI_X0_X2_5 |-> <<81, 19>>,        \* 0x00510013  addi x0, x2, 5
    SUB_X3_X1_X2 |-> <<16416, 33203>>,  \* 0x402081B3  sub  x3, x1, x2
    SW_X2_0_X1   |-> <<32, 40995>>,     \* 0x0020A023  sw   x2, 0(x1)
    SH_X2_3_X1   |-> <<32, 37283>>,     \* 0x002091A3  sh   x2, 3(x1)
    LW_X0_0_X1   |-> <<0, 40963>>,      \* 0x0000A003  lw   x0, 0(x1)
    LB_X3_3_X1   |-> <<48, 33155>>,     \* 0x00308183  lb   x3, 3(x1)
    BLT_X2_X0_M4 |-> <<65025, 20195>>,  \* 0xFE014EE3  blt  x2, x0, -4
    JAL_X1_8     |-> <<128, 239>>,      \* 0x008000EF  jal  x1, 8
    JALR_X0_0_X0 |-> <<0, 103>>,        \* 0x00000067  jalr x0, 0(x0)
    JALR_X1_0_X1 |-> <<0, 32999>>,      \* 0x000080E7  jalr x1, 0(x1)
    ECALL        |-> <<0, 115>>,        \* 0x00000073  ecall
    EBREAK       |-> <<16, 115>>,       \* 0x00100073  ebreak
    NO_INSTR     |-> <<0, 0>> ]         \* 0x00000000  no instruction

RECURSIVE TextOf(_)
TextOf(prog) ==
    IF prog = <<>> THEN <<>>
    ELSE to_le_bytes(Head(prog)) \o TextOf(Tail(prog))

\* all but the last n bytes
DropLast(bytes, n) == SubSeq(bytes, 1, Len(bytes) - n)

\* The (text, data) images load is called with.
Images == {
    \* registers, a store, loads (one into x0), an rd = 0 write, then ecall
    [text |-> TextOf(<<WORD.LUI_X1_DATA, WORD.ADDI_X2_M1, WORD.SW_X2_0_X1, WORD.LB_X3_3_X1, WORD.LW_X0_0_X1,
                       WORD.ADDI_X0_X2_5, WORD.SUB_X3_X1_X2, WORD.ECALL>>),
     data |-> <<1, 2, 3, 128>>],
    \* a jump over an ebreak and a branch back to it
    [text |-> TextOf(<<WORD.ADDI_X2_M1, WORD.JAL_X1_8, WORD.EBREAK, WORD.BLT_X2_X0_M4>>),
     data |-> <<>>],
    \* a branch (taken when x2 < 0), then a jump through x0 to address 0
    [text |-> TextOf(<<WORD.BLT_X2_X0_M4, WORD.JALR_X0_0_X0>>),
     data |-> <<>>],
    \* a half-word store across the end of the data segment, a jump through x1
    [text |-> TextOf(<<WORD.LUI_X1_DATA, WORD.ADDI_X2_M1, WORD.SH_X2_3_X1, WORD.JALR_X1_0_X1>>),
     data |-> <<1, 2, 3, 128>>],
    \* a word that is no instruction
    [text |-> TextOf(<<WORD.NO_INSTR>>), data |-> <<7>>],
    \* a text whose last word lacks a byte
    [text |-> DropLast(TextOf(<<WORD.ADDI_X2_M1, WORD.ADDI_X0_X2_5>>), 1), data |-> <<>>],
    \* nothing at all
    [text |-> <<>>, data |-> <<>>] }

----------------------------------------------------------------------------
\* The processor as a state machine: the calls of its public interface.

Self == [pc |-> pc, registers |-> registers, memory |-> memory]

Become(p) ==
    /\ pc' = p.pc
    /\ registers' = p.registers
    /\ memory' = p.memory

CpuInit ==
    /\ LET p == new(TEXT_BASE, DATA_BASE, STACK_BASE, STACK_SIZE)
       IN  pc = p.pc /\ registers = p.registers /\ memory = p.memory
    /\ outcome = [tag |-> "none"]
    /\ op = "new"
    /\ arg = <<>>
    /\ instruction = NoInstruction
    /\ nloads = 0
    /\ ncalls = 0
    /\ overflow_checks \in BOOLEAN

\* a panic ends the process
Alive == outcome # Panic

LoadCall ==
    /\ Alive
    /\ nloads < MaxLoads
    /\ \E img \in Images :
          /\ Become(load(Self, img.text, img.data))
          /\ arg' = [text |-> img.text, data |-> img.data]
    /\ outcome' = [tag |-> "unit"]
    /\ op' = "load"
    /\ nloads' = nloads + 1
    /\ UNCHANGED appVars
    /\ UNCHANGED <<instruction, ncalls, overflow_checks, asmVars>>

StepCall ==
    /\ Alive
    /\ \E s \in {step(Self, overflow_checks)} :
          Become(s.p) /\ outcome' = s.res /\ instruction' = s.instr
    /\ op' = "step"
    /\ UNCHANGED appVars
    /\ UNCHANGED <<arg, nloads, ncalls, overflow_checks, asmVars>>

None == [tag |-> "none"]

AsmInit ==
    /\ statements = <<>>
    /\ symbol_table = SymbolTable_new(TEXT_BASE, DATA_BASE)
    /\ build_result = None
    /\ assembler = Assembler_new
    /\ asm_result = None
    /\ nadds = 0

\* App::new
AppInit ==
    /\ editor = <<>>
    /\ active_pane = "Editor"
    /\ mode = "Editing"
    /\ logs = <<>>
    /\ handler = "none"

vars == <<cpuVars, asmVars, appVars>>

Init == CpuInit /\ AsmInit /\ AppInit

Next == LoadCall \/ StepCall

Spec == Init /\ [][Next]_vars


----------------------------------------------------------------------------
\* The Memory of the processor driven directly: read_byte and write_byte
\* called with addresses at and around the ends of each segment.

AroundSegment(base, len) ==
    { wrapping_sub(base, U32(1)), base,
      wrapping_add(base, U32(len - 1)), wrapping_add(base, U32(len)) }

ProbeAddresses ==
    AroundSegment(memory.text_base, Len(memory.text))
      \cup AroundSegment(memory.data_base, Len(memory.data))
      \cup AroundSegment(memory.stack_base, memory.stack_len)
      \cup { ZERO, <<65535, 65535>> }

ProbeBytes == {0, 255}

WriteByteCall ==
    /\ ncalls < MaxMemCalls
    /\ \E a \in ProbeAddresses, v \in ProbeBytes :
          \E w \in {write_byte(memory, a, v)} :
              /\ memory' = w.mem
              /\ outcome' = w.res
              /\ arg' = [address |-> a, value |-> v]
    /\ op' = "write_byte"
    /\ ncalls' = ncalls + 1
    /\ UNCHANGED appVars
    /\ UNCHANGED <<pc, registers, instruction, nloads, overflow_checks, asmVars>>

ReadByteCall ==
    /\ ncalls < MaxMemCalls
    /\ \E a \in ProbeAddresses :
          /\ outcome' = read_byte(memory, a)
          /\ arg' = [address |-> a]
    /\ op' = "read_byte"
    /\ ncalls' = ncalls + 1
    /\ UNCHANGED appVars
    /\ UNCHANGED <<pc, registers, memory, instruction, nloads, overflow_checks, asmVars>>

NextMem == LoadCall \/ WriteByteCall \/ ReadByteCall

SpecMem == Init /\ [][NextMem]_vars

\* a lies in one of the three half-open ranges [base, base + len)
InRange(a, base, len) == LtU(wrapping_sub(a, base), U32(len))
InSomeSegment(m, a) ==
    \/ InRange(a, m.text_base, Len(m.text))
    \/ InRange(a, m.data_base, Len(m.data))
    \/ InRange(a, m.stack_base, m.stack_len)

\* C4 (memory byte containment): for an address in one of the three ranges
\* write_byte(a, v) returns Ok and read_byte(a) then returns v; for any other
\* address both return OutOfBounds{address: a} and the memory is unchanged.
C4_ByteContainment ==
    [][op' = "write_byte" =>
        LET a == arg'.address
            v == arg'.value
        IN  IF InSomeSegment(memory, a)
            THEN /\ outcome' = Ok("unit")
                 /\ read_byte(memory', a) = Ok(v)
            ELSE /\ outcome' = Err(OutOfBounds(a))
                 /\ read_byte(memory', a) = Err(OutOfBounds(a))
                 /\ read_byte(memory, a) = Err(OutOfBounds(a))
                 /\ memory' = memory]_vars

\* a byte has been written into each kind of segment, and one refused
C4_Witness ==
    /\ op = "write_byte" /\ outcome = Ok("unit")
    /\ arg.value = 255
    /\ InRange(arg.address, memory.stack_base, memory.stack_len)
    /\ read_byte(memory, arg.address) = Ok(255)
    /\ Len(memory.text) > 0

----------------------------------------------------------------------------
\* The compile pipeline of compile_and_load: parse, SymbolTable::build,
\* Assembler::assemble, over every program of a few statements.

Seqs(S, n) == UNION { [1..k -> S] : k \in 0..n }

\* one statement per source line
Numbered(prog) == [i \in 1..Len(prog) |-> Statement(prog[i], i)]

ADD_X1_X2_X3 == Instruction("add", <<Register(1), Register(2), Register(3)>>)

SymKinds ==
    { Label("a"), Label("b"), ADD_X1_X2_X3,
      Directive(".text", <<>>), Directive(".data", <<>>),
      Directive(".word", <<Immediate(1), Immediate(2)>>),
      Directive(".asciz", <<StringLiteral("hi")>>),
      Directive(".align", <<Immediate(2)>>),
      Directive(".align", <<Immediate(32)>>) }

AsmKinds ==
    { Label("a"), ADD_X1_X2_X3,
      Instruction("addi", <<Register(1), Register(2), Immediate(-1)>>),
      Instruction("addi", <<Register(1), Register(2), Immediate(4096)>>),
      Instruction("sw", <<Register(3), Memory(Immediate(-4), 2)>>),
      Instruction("sw", <<Register(3), Memory(LabelRef("a"), 2)>>),
      Instruction("jal", <<Register(1), Immediate(2048)>>),
      Instruction("fence", <<>>),
      Instruction("mul", <<Register(1), Register(2), Register(3)>>),
      Directive(".data", <<>>),
      Directive(".word", <<Immediate(-2)>>),
      Directive(".asciz", <<StringLiteral("hi")>>) }

ParseCall(programs) ==
    /\ op = "new"
    /\ \E prog \in programs : statements' = Numbered(prog)
    /\ op' = "parse"
    /\ UNCHANGED appVars
    /\ UNCHANGED <<pc, registers, memory, outcome, arg, instruction, nloads, ncalls,
                   overflow_checks, symbol_table, build_result, assembler, asm_result,
                   nadds>>

ParseSym == ParseCall(Seqs(SymKinds, MaxSymStmts))
ParseAsm == ParseCall(Seqs(AsmKinds, MaxAsmStmts))

BuildCall ==
    /\ op = "parse"
    /\ \E r \in {build(symbol_table, statements, overflow_checks)} :
          symbol_table' = r.self /\ build_result' = r.res
    /\ op' = "build"
    /\ UNCHANGED appVars
    /\ UNCHANGED <<pc, registers, memory, outcome, arg, instruction, nloads, ncalls,
                   overflow_checks, statements, assembler, asm_result, nadds>>

\* a panic in build ends the process
AssembleCall ==
    /\ op = "build"
    /\ build_result # Panic
    /\ \E r \in {assemble(assembler, statements, symbol_table)} :
          assembler' = r.self /\ asm_result' = r.res
    /\ op' = "assemble"
    /\ UNCHANGED appVars
    /\ UNCHANGED <<pc, registers, memory, outcome, arg, instruction, nloads, ncalls,
                   overflow_checks, statements, symbol_table, build_result, nadds>>

LabelNames == {"a", "b"}
LabelAddresses == {TEXT_BASE, wrapping_add(TEXT_BASE, <<0, 4>>), DATA_BASE}

\* add_label called directly on the table
AddLabelCall ==
    /\ op \in {"new", "add_label"}
    /\ nadds < MaxAdds
    /\ \E label \in LabelNames, address \in LabelAddresses :
          \E r \in {add_label(symbol_table, label, address)} :
              /\ symbol_table' = r.self
              /\ outcome' = r.res
              /\ arg' = [label |-> label, address |-> address]
    /\ op' = "add_label"
    /\ nadds' = nadds + 1
    /\ UNCHANGED appVars
    /\ UNCHANGED <<pc, registers, memory, instruction, nloads, ncalls, overflow_checks,
                   statements, build_result, assembler, asm_result>>

NextSym == AddLabelCall \/ ParseSym \/ BuildCall

SpecSym == Init /\ [][NextSym]_vars

NextAsm == ParseAsm \/ BuildCall \/ AssembleCall

SpecAsm == Init /\ [][NextAsm]_vars

----------------------------------------------------------------------------
\* Properties of the processor.

PcPlus4 == wrapping_add(pc, U32(4))

HasRd(i) == "rd" \in DOMAIN i

BranchOrJump == {"Beq", "Bne", "Blt", "Bge", "Bltu", "Bgeu", "Jal", "Jalr"}

\* the step just taken returned Ok after decoding an instruction
SteppedOk == op' = "step" /\ outcome' = StepOk /\ instruction'.ok

\* C2 (x0 discipline): register 0 holds 0 and reads as 0 in every reachable
\* state, and a step that returns Ok for an instruction whose rd is 0 leaves
\* the 32 registers, and the memory, as they were.
C2_X0Discipline ==
    /\ [](registers[0] = ZERO /\ read_register(Self, 0) = ZERO)
    /\ [][(SteppedOk /\ HasRd(instruction'.val) /\ instruction'.val.rd = 0)
            => (registers' = registers /\ memory' = memory)]_vars

\* a step has executed an instruction with rd = 0 and returned Ok
C2_Witness ==
    /\ op = "step" /\ outcome = StepOk /\ instruction.ok
    /\ HasRd(instruction.val) /\ instruction.val.rd = 0
    /\ instruction.val.op \in {"Addi", "Lw"}

\* C3 (sequential PC): a step that returns Ok for an instruction that is not
\* a branch, jal or jalr leaves PC = (old PC + 4) mod 2^32.
C3_PcAdvancesBy4 ==
    [][(SteppedOk /\ instruction'.val.op \notin BranchOrJump) => pc' = PcPlus4]_vars

C3_Witness ==
    /\ op = "step" /\ outcome = StepOk /\ instruction.ok
    /\ instruction.val.op \notin BranchOrJump
    /\ pc # TEXT_BASE

\* C9 as claimed: a step that fetches ecall returns the StepError Ecall, one
\* that fetches ebreak returns Ebreak, and PC and registers stay as they were.
C9_EcallEbreakReturned ==
    [][(op' = "step" /\ instruction'.ok /\ instruction'.val.op \in {"Ecall", "Ebreak"})
         => /\ outcome' = [tag |-> instruction'.val.op]
            /\ pc' = pc /\ registers' = registers]_vars

\* the four bytes PC .. PC+3 all lie inside the loaded text bytes
ByteInText(a) == LtU(wrapping_sub(a, memory.text_base), U32(Len(memory.text)))
FetchInText == \A k \in 0..3 : ByteInText(wrapping_add(pc, U32(k)))

\* C10 as claimed: whenever the four bytes at PC are not all inside the text,
\* step returns MemoryFault(OutOfBounds{PC}) as a value and changes nothing.
C10_FetchFaultReturned ==
    [][(op' = "step" /\ ~FetchInText)
         => /\ outcome' = OutOfBounds(pc)
            /\ pc' = pc /\ registers' = registers /\ memory' = memory]_vars


----------------------------------------------------------------------------
\* Properties of the symbol table.

Symbols == symbol_table.symbols

IsLabel(stmt) == stmt.kind.k = "Label"

DefinesTwice(stmts) ==
    \E i, j \in 1..Len(stmts) :
        i < j /\ IsLabel(stmts[i]) /\ IsLabel(stmts[j])
              /\ stmts[i].kind.name = stmts[j].kind.name

IsError(r) == r # Panic /\ r # None /\ ~r.ok

\* C5 (symbol table uniqueness): add_label on a name already present returns
\* an error and leaves the name-to-address mapping unchanged, on a new name it
\* adds only that name, so each name keeps the first address inserted; and
\* build returns an error for every statement list that defines a label twice.
C5_SymbolUniqueness ==
    /\ [][op' = "add_label" =>
            IF arg'.label \in DOMAIN Symbols
            THEN /\ IsError(outcome')
                 /\ symbol_table' = symbol_table
            ELSE /\ outcome' = Ok("unit")
                 /\ DOMAIN symbol_table'.symbols = DOMAIN Symbols \cup {arg'.label}
                 /\ symbol_table'.symbols[arg'.label] = arg'.address
                 /\ \A n \in DOMAIN Symbols : symbol_table'.symbols[n] = Symbols[n]]_vars
    /\ []((op = "build" /\ DefinesTwice(statements)) => IsError(build_result))

\* the section that is current at statement i
RECURSIVE SectionAt(_, _)
SectionAt(stmts, i) ==
    IF i = 1 THEN ".text"
    ELSE LET prev == stmts[i - 1].kind
         IN  IF prev.k = "Directive" /\ prev.name \in {".text", ".data"}
             THEN prev.name
             ELSE SectionAt(stmts, i - 1)

SectionBase(s) == IF s = ".text" THEN TEXT_BASE ELSE DATA_BASE

\* the offset of section s at statement i: 4 per instruction and the size of
\* each directive among the statements before i that occurred while s was current
RECURSIVE OffsetAt(_, _, _, _)
OffsetAt(stmts, i, s, checks) ==
    IF i = 1 THEN ZERO
    ELSE LET before == OffsetAt(stmts, i - 1, s, checks)
             prev   == stmts[i - 1].kind
         IN  IF SectionAt(stmts, i - 1) # s THEN before
             ELSE CASE prev.k = "Instruction" -> wrapping_add(before, <<0, 4>>)
                    [] prev.k = "Directive" /\ prev.name \notin {".text", ".data"} ->
                          wrapping_add(before,
                              calculate_directive_size(prev.name, prev.ops,
                                  wrapping_add(SectionBase(s), before), checks).val)
                    [] OTHER -> before

FirstDefinition(stmts, name) ==
    CHOOSE i \in 1..Len(stmts) :
        /\ IsLabel(stmts[i]) /\ stmts[i].kind.name = name
        /\ \A j \in 1..(i - 1) : ~(IsLabel(stmts[j]) /\ stmts[j].kind.name = name)

LabelAddress(stmts, i, checks) ==
    LET s == SectionAt(stmts, i)
    IN  wrapping_add(SectionBase(s), OffsetAt(stmts, i, s, checks))

\* C6 (label address assignment): build gives each label the address
\* base[s] + offset[s] of the section s current at the label, the two offsets
\* being independent and kept across switches of section; a build that
\* succeeds has given every label of the list its address.
C6_LabelAddress ==
    (op = "build" /\ build_result # Panic) =>
        /\ \A n \in DOMAIN Symbols :
              /\ \E i \in 1..Len(statements) :
                    IsLabel(statements[i]) /\ statements[i].kind.name = n
              /\ Symbols[n] = LabelAddress(statements, FirstDefinition(statements, n),
                                           overflow_checks)
        /\ build_result = Ok("unit") =>
              \A i \in 1..Len(statements) :
                  IsLabel(statements[i]) => statements[i].kind.name \in DOMAIN Symbols

\* a label of .text defined after an instruction, a switch to .data and back,
\* and a label of .data defined after a directive
C6_Witness ==
    /\ op = "build" /\ build_result = Ok("unit")
    /\ \/ /\ Len(statements) = 4
          /\ statements[1].kind.k = "Instruction"
          /\ statements[2].kind = Directive(".data", <<>>)
          /\ statements[3].kind = Directive(".text", <<>>)
          /\ statements[4].kind = Label("a")
          /\ Symbols["a"] = wrapping_add(TEXT_BASE, <<0, 4>>)
       \/ /\ Len(statements) > 4
          /\ "a" \in DOMAIN Symbols /\ "b" \in DOMAIN Symbols
          /\ LtU(TEXT_BASE, Symbols["a"]) /\ LtU(Symbols["a"], DATA_BASE)
          /\ LtU(DATA_BASE, Symbols["b"])

----------------------------------------------------------------------------
\* Properties of the assembler.

IsInstruction(stmt) == stmt.kind.k = "Instruction"
IsData(stmt) == stmt.kind.k = "Directive" /\ stmt.kind.name \notin {".text", ".data"}

Encoding(stmt) ==
    encode_instruction(stmt.kind.name, stmt.kind.ops, symbol_table, TEXT_BASE)

Encodes(stmt) == IsInstruction(stmt) /\ Encoding(stmt).ok

Encoded == SelectSeq(statements, Encodes)

\* the words of the instructions from statement i on that encode without
\* error, in statement order
RECURSIVE WordsFrom(_, _)
WordsFrom(stmts, i) ==
    IF i > Len(stmts) THEN <<>>
    ELSE IF ~IsInstruction(stmts[i]) THEN WordsFrom(stmts, i + 1)
    ELSE The({ IF r.ok THEN <<r.val>> ELSE <<>> : r \in {Encoding(stmts[i])} })
            \o WordsFrom(stmts, i + 1)

WordAt(bytes, i) == from_le_bytes(SubSeq(bytes, 4 * i + 1, 4 * i + 4))

\* C7 (text_bin): after assemble, text_bin is the concatenation, in statement
\* order, of the four bytes, least significant first, of the word of each
\* instruction that encoded without error.
C7_TextBinLittleEndian ==
    op = "assemble" =>
        \A words \in {WordsFrom(statements, 1)} :
            /\ Len(assembler.text_bin) = 4 * Len(words)
            /\ \A i \in 0..(Len(words) - 1) :
                  \A w \in {words[i + 1]} :
                      /\ assembler.text_bin[4 * i + 1] = w[2] % 256
                      /\ assembler.text_bin[4 * i + 2] = w[2] \div 256
                      /\ assembler.text_bin[4 * i + 3] = w[1] % 256
                      /\ assembler.text_bin[4 * i + 4] = w[1] \div 256
                      /\ WordAt(assembler.text_bin, i) = w

\* two instructions emitted around one that failed to encode
C7_Witness ==
    /\ op = "assemble"
    /\ Len(statements) = 3
    /\ Encodes(statements[1]) /\ ~Encodes(statements[2]) /\ Encodes(statements[3])
    /\ IsInstruction(statements[2])
    /\ Encoding(statements[1]) # Encoding(statements[3])
    /\ Len(assembler.text_bin) = 8
    /\ WordAt(assembler.text_bin, 1) = Encoding(statements[3]).val

Fails(stmt) ==
    \/ IsInstruction(stmt) /\ ~Encoding(stmt).ok
    \/ IsData(stmt) /\ ~emit_data_bytes(stmt.kind.name, stmt.kind.ops).ok

EmitsData(stmt) == IsData(stmt) /\ ~Fails(stmt)

\* how each statement fares: "text" (an instruction that encodes), "data" (a
\* directive that emits), "fails", or "none" (a label, .text, .data)
Fate(stmt) ==
    CASE Fails(stmt)         -> "fails"
      [] IsInstruction(stmt) -> "text"
      [] IsData(stmt)        -> "data"
      [] OTHER               -> "none"

Fates == [i \in 1..Len(statements) |-> Fate(statements[i])]

Count(fates, fate) == Cardinality({i \in DOMAIN fates : fates[i] = fate})

\* the lines of the failing statements, in statement order
RECURSIVE FailingLines(_, _)
FailingLines(fates, i) ==
    IF i > Len(fates) THEN <<>>
    ELSE (IF fates[i] = "fails" THEN <<statements[i].line>> ELSE <<>>)
            \o FailingLines(fates, i + 1)

\* C8 (error batching): assemble returns Err exactly when some statement
\* fails to encode, with one entry per failing statement, in statement order,
\* carrying its line; the statements that encode, also after a failing one,
\* are appended to the output.
C8_ErrorBatching ==
    op = "assemble" =>
        \A fates \in {Fates} :
            /\ IsError(asm_result) <=> Count(fates, "fails") > 0
            /\ Count(fates, "fails") = 0 => asm_result = Ok("unit")
            /\ IsError(asm_result) =>
                  [i \in 1..Len(asm_result.err) |-> asm_result.err[i].line]
                      = FailingLines(fates, 1)
            /\ Len(assembler.text_bin) = 4 * Count(fates, "text")
            /\ Len(assembler.data_bin) = 4 * Count(fates, "data")

\* two failing statements reported, and the instruction after them emitted
C8_Witness ==
    /\ op = "assemble"
    /\ Len(statements) = 3
    /\ Fails(statements[1]) /\ Fails(statements[2]) /\ Encodes(statements[3])
    /\ IsInstruction(statements[1]) /\ IsData(statements[2])
    /\ IsError(asm_result)
    /\ Len(asm_result.err) = 2
    /\ asm_result.err[1].line = 1 /\ asm_result.err[2].line = 2
    /\ assembler.text_bin = to_le_bytes(Encoding(statements[3]).val)

\* the variant of Instruction each mnemonic stands for
Variant ==
    ("add" :> "Add") @@ ("sub" :> "Sub") @@ ("sll" :> "Sll") @@ ("slt" :> "Slt")
      @@ ("sltu" :> "Sltu") @@ ("xor" :> "Xor") @@ ("srl" :> "Srl") @@ ("sra" :> "Sra")
      @@ ("or" :> "Or") @@ ("and" :> "And") @@ ("addi" :> "Addi") @@ ("slti" :> "Slti")
      @@ ("sltiu" :> "Sltiu") @@ ("xori" :> "Xori") @@ ("ori" :> "Ori")
      @@ ("andi" :> "Andi") @@ ("slli" :> "Slli") @@ ("srli" :> "Srli")
      @@ ("srai" :> "Srai") @@ ("lb" :> "Lb") @@ ("lh" :> "Lh") @@ ("lw" :> "Lw")
      @@ ("lbu" :> "Lbu") @@ ("lhu" :> "Lhu") @@ ("jalr" :> "Jalr") @@ ("sb" :> "Sb")
      @@ ("sh" :> "Sh") @@ ("sw" :> "Sw") @@ ("beq" :> "Beq") @@ ("bne" :> "Bne")
      @@ ("blt" :> "Blt") @@ ("bge" :> "Bge") @@ ("bltu" :> "Bltu") @@ ("bgeu" :> "Bgeu")
      @@ ("jal" :> "Jal") @@ ("ecall" :> "Ecall") @@ ("ebreak" :> "Ebreak")
      @@ ("fence" :> "Fence")

\* the value of the offset of a memory operand: the immediate, or the address
\* of the label
OffsetValue(offset) ==
    IF offset.t = "Immediate" THEN offset.v ELSE AsI32(Symbols[offset.s])

\* the instruction an accepted statement denotes: the variant of its mnemonic
\* with the operand values as they were given
Given(stmt) ==
    LET name == stmt.kind.name
        ops  == stmt.kind.ops
    IN  CASE name \in DOMAIN R_TYPE ->
                [op |-> Variant[name], rd |-> ops[1].n, rs1 |-> ops[2].n, rs2 |-> ops[3].n]
          [] name \in DOMAIN I_TYPE ->
                [op |-> Variant[name], rd |-> ops[1].n, rs1 |-> ops[2].n, imm |-> ops[3].v]
          [] name \in DOMAIN I_SHIFT ->
                [op |-> Variant[name], rd |-> ops[1].n, rs1 |-> ops[2].n, shamt |-> ops[3].v]
          [] name \in DOMAIN S_TYPE ->
                [op |-> Variant[name], rs1 |-> ops[2].reg, rs2 |-> ops[1].n,
                 imm |-> OffsetValue(ops[2].offset)]
          [] name \in DOMAIN B_TYPE ->
                [op |-> Variant[name], rs1 |-> ops[1].n, rs2 |-> ops[2].n, imm |-> ops[3].v]
          [] name = "jal" ->
                [op |-> Variant[name], rd |-> ops[1].n, imm |-> ops[2].v]
          [] OTHER -> [op |-> Variant[name]]

BothPassesSucceeded ==
    op = "assemble" /\ build_result = Ok("unit") /\ asm_result = Ok("unit")

\* C1 (encode/decode round-trip): when the symbol pass and assemble succeed,
\* each emitted word decodes, never to IllegalInstruction, to the instruction
\* with the variant and the rd, rs1, rs2, imm and shamt the encoder was given.
C1_EncodeDecodeRoundTrip ==
    BothPassesSucceeded =>
        \A i \in 1..Len(Encoded) :
            LET d == decode(WordAt(assembler.text_bin, i - 1))
            IN  d.ok /\ d.val = Given(Encoded[i])

----------------------------------------------------------------------------
\* Properties of load.

\* C11 as claimed: after load(text, data), on a fresh processor or after
\* steps that changed registers, PC is the text base, all 32 registers are
\* 0, and the text and data segments hold exactly the loaded bytes.
C11_ResetOnLoad ==
    op = "load" =>
        /\ pc = memory.text_base
        /\ \A i \in 0..(NUM_REGISTERS - 1) : registers[i] = ZERO
        /\ memory.text = arg.text
        /\ memory.data = arg.data

----------------------------------------------------------------------------
\* The decoder on its own: decode applied to words assembled from fields.

\* funct7 | rs2 | rs1 | funct3 | rd | opcode
MakeWord(funct7, rs2, rs1, funct3, rd, opcode) ==
    <<funct7 * 512 + rs2 * 16 + rs1 \div 2,
      (rs1 % 2) * 32768 + funct3 * 4096 + rd * 128 + opcode>>

\* the ten opcodes decode dispatches on, fence (0x0F) and two unused ones
Opcodes == {51, 19, 3, 35, 99, 111, 103, 55, 23, 115, 15, 0, 127}

DecodeWords ==
    { MakeWord(f7, 0, 0, f3, 0, opc) : f7 \in {0, 1, 32}, f3 \in 0..7, opc \in Opcodes }
    \cup { MakeWord(0, rs2, rs1, f3, rd, 115) :
              rs2 \in {0, 1, 2}, rs1 \in {0, 1}, f3 \in {0, 1}, rd \in {0, 1} }

DecodeCall ==
    /\ \E w \in DecodeWords :
          /\ instruction' = decode(w)
          /\ arg' = w
    /\ op' = "decode"
    /\ UNCHANGED appVars
    /\ UNCHANGED <<pc, registers, memory, outcome, nloads, ncalls, overflow_checks, asmVars>>

NextDecode == DecodeCall

SpecDecode == Init /\ [][NextDecode]_vars

\* The RV32I tables: the variant that (opcode, funct3, funct7) select, or
\* "none"; for the system opcode only the two exact words select one.
TableEntry(w) ==
    LET opcode == Field(w, 0, 7)
        f3     == Func3(w)
        f7     == Func7(w)
        R == (<<0, 0>> :> "Add") @@ (<<0, 32>> :> "Sub") @@ (<<1, 0>> :> "Sll")
             @@ (<<2, 0>> :> "Slt") @@ (<<3, 0>> :> "Sltu") @@ (<<4, 0>> :> "Xor")
             @@ (<<5, 0>> :> "Srl") @@ (<<5, 32>> :> "Sra") @@ (<<6, 0>> :> "Or")
             @@ (<<7, 0>> :> "And")
        I == (0 :> "Addi") @@ (2 :> "Slti") @@ (3 :> "Sltiu") @@ (4 :> "Xori")
             @@ (6 :> "Ori") @@ (7 :> "Andi")
        S == (<<1, 0>> :> "Slli") @@ (<<5, 0>> :> "Srli") @@ (<<5, 32>> :> "Srai")
        L == (0 :> "Lb") @@ (1 :> "Lh") @@ (2 :> "Lw") @@ (4 :> "Lbu") @@ (5 :> "Lhu")
        St == (0 :> "Sb") @@ (1 :> "Sh") @@ (2 :> "Sw")
        B == (0 :> "Beq") @@ (1 :> "Bne") @@ (4 :> "Blt") @@ (5 :> "Bge")
             @@ (6 :> "Bltu") @@ (7 :> "Bgeu")
        In(t, k) == IF k \in DOMAIN t THEN t[k] ELSE "none"
    IN  CASE opcode = 51  -> In(R, <<f3, f7>>)
          [] opcode = 19  -> IF f3 \in {1, 5} THEN In(S, <<f3, f7>>) ELSE In(I, f3)
          [] opcode = 3   -> In(L, f3)
          [] opcode = 35  -> In(St, f3)
          [] opcode = 99  -> In(B, f3)
          [] opcode = 111 -> "Jal"
          [] opcode = 103 -> IF f3 = 0 THEN "Jalr" ELSE "none"
          [] opcode = 55  -> "Lui"
          [] opcode = 23  -> "Auipc"
          [] opcode = 115 -> IF w = <<0, 115>> THEN "Ecall"
                             ELSE IF w = <<16, 115>> THEN "Ebreak" ELSE "none"
          [] OTHER -> "none"

\* C12 as claimed: decode returns an instruction variant only for a word
\* that matches an entry of the RV32I tables (the variant of that entry), and
\* IllegalInstruction for every other word: jalr with funct3 # 0, a
\* shift-immediate with funct7 other than 0x00/0x20, and every system word
\* other than exactly ecall and ebreak included.
C12_DecoderRejection ==
    op = "decode" =>
        IF TableEntry(arg) = "none"
        THEN instruction = Err(IllegalInstruction)
        ELSE instruction.ok => instruction.val.op = TableEntry(arg)

----------------------------------------------------------------------------
\* Single instructions: a processor is constructed, registers x1 and x2 are
\* given values, a text of one instruction word and a data segment are
\* loaded, and step is called.

ExecWords ==
    LET \* imm: the 12-bit field (imm mod 2^12)
        IWord(imm, rs1, f3, rd, opc) == MakeWord(imm \div 32, imm % 32, rs1, f3, rd, opc)
        \* imm: the 13-bit branch offset (imm mod 2^13)
        BWord(imm, rs2, rs1, f3) ==
            MakeWord((imm \div 4096) * 64 + ((imm \div 32) % 64), rs2, rs1, f3,
                     ((imm \div 2) % 16) * 2 + ((imm \div 2048) % 2), 99)
        \* imm: the 21-bit jump offset (imm mod 2^21)
        JWord(imm, rd) ==
            LET u == (imm \div 1048576) * 524288 + ((imm \div 2) % 1024) * 512
                     + ((imm \div 2048) % 2) * 256 + ((imm \div 4096) % 256)
            IN  <<u \div 16, (u % 16) * 4096 + rd * 128 + 111>>
    IN  \* lb, lh, lw, lbu, lhu x3, imm(x1)
        { IWord(imm, 1, f3, 3, 3) : imm \in {4095, 0, 1}, f3 \in {0, 1, 2, 4, 5} }
        \* slt, sltu x3, x1, x2
        \cup { MakeWord(0, 2, 1, f3, 3, 51) : f3 \in {2, 3} }
        \* slti, sltiu x3, x1, imm
        \cup { IWord(imm, 1, f3, 3, 19) : imm \in {4095, 1}, f3 \in {2, 3} }
        \* blt, bge, bltu, bgeu x1, x2, imm
        \cup { BWord(imm, 2, 1, f3) : imm \in {8, 8192 - 4}, f3 \in {4, 5, 6, 7} }
        \* jal x3, 8; jal x0, 2044; jal x3, -4; jal x3, -1048576
        \cup { JWord(8, 3), JWord(2044, 0), JWord(2097152 - 4, 3), JWord(1048576, 3) }
        \* jalr x3, imm(x1); jalr x0, 6(x2); jalr x1, 0(x1)
        \cup { IWord(imm, 1, 0, 3, 103) : imm \in {4095 - 2, 0, 1} }
        \cup { IWord(6, 2, 0, 0, 103), IWord(0, 1, 0, 1, 103) }
        \* sb, sh, sw x2, imm(x1)
        \cup { MakeWord(imm \div 32, 2, 1, f3, imm % 32, 35) :
                  imm \in {4095, 0, 1}, f3 \in {0, 1, 2} }
        \* addi x3, x1, -1; ecall; a word that is no instruction
        \cup { IWord(4095, 1, 0, 3, 19), WORD.ECALL, WORD.NO_INSTR }

InitExec ==
    LET \* values of x1: 0, 1, i32::MAX (the stack base), i32::MIN, -1, and two
        \* addresses inside the data segment
        X1Values == {ZERO, <<0, 1>>, <<32767, 65535>>, <<32768, 0>>, <<65535, 65535>>,
                     <<4097, 1>>, <<4097, 3>>}
        X2Values == {ZERO, <<0, 1>>, <<32768, 0>>, <<65535, 65535>>}
        ExecData == <<128, 255, 1, 127>>
    IN  /\ \E w \in ExecWords, x1 \in X1Values, x2 \in X2Values :
              LET fresh == new(TEXT_BASE, DATA_BASE, STACK_BASE, STACK_SIZE)
                  p == load([fresh EXCEPT !.registers[1] = x1, !.registers[2] = x2],
                            to_le_bytes(w), ExecData)
              IN  /\ pc = p.pc /\ registers = p.registers /\ memory = p.memory
                  /\ arg = [text |-> to_le_bytes(w), data |-> ExecData]
        /\ outcome = [tag |-> "unit"]
        /\ op = "load"
        /\ instruction = NoInstruction
        /\ nloads = 1
        /\ ncalls = 0
        /\ overflow_checks \in BOOLEAN
        /\ AsmInit
        /\ AppInit

NextExec == StepCall

SpecExec == InitExec /\ [][NextExec]_vars

\* the instruction the step just taken has executed with Ok
Done == instruction'.val

Imm32 == AsU32(Done.imm)

\* C13 (jump semantics): after a step that returns Ok for jal, or for jalr
\* with rd # rs1, register rd (when rd # 0) holds (old PC + 4) mod 2^32, and
\* the new PC is (old PC + imm) mod 2^32 for jal and ((rs1 + imm) mod 2^32)
\* with bit 0 cleared for jalr.
C13_JumpSemantics ==
    [][/\ (SteppedOk /\ Done.op = "Jal") =>
            /\ Done.rd # 0 => registers'[Done.rd] = PcPlus4
            /\ pc' = wrapping_add(pc, Imm32)
       /\ (SteppedOk /\ Done.op = "Jalr" /\ Done.rd # Done.rs1) =>
            /\ Done.rd # 0 => registers'[Done.rd] = PcPlus4
            /\ LET sum == wrapping_add(read_register(Self, Done.rs1), Imm32)
               IN  pc' = <<sum[1], sum[2] - (sum[2] % 2)>>]_vars

\* a jalr with a negative offset has cleared bit 0 of an odd target, and a
\* jal with a negative offset has been taken
C13_Witness ==
    /\ op = "step" /\ outcome = StepOk /\ instruction.ok
    /\ \/ /\ instruction.val.op = "Jalr" /\ instruction.val.imm = -3
          /\ instruction.val.rd = 3 /\ pc = <<4097, 0>>
          /\ registers[3] = wrapping_add(TEXT_BASE, U32(4))
       \/ /\ instruction.val.op = "Jal" /\ instruction.val.imm = -4
          /\ pc = wrapping_sub(TEXT_BASE, U32(4))

\* a register value as a two's-complement signed integer
Signed(w) == IF w[1] >= 32768 THEN (w[1] - 65536) * 65536 + w[2] ELSE w[1] * 65536 + w[2]

\* a < b as unsigned 32-bit integers
Below(a, b) == a[1] < b[1] \/ (a[1] = b[1] /\ a[2] < b[2])

\* the values of rs1 and rs2 before the step
Rs1Value == read_register(Self, Done.rs1)
Rs2Value == read_register(Self, Done.rs2)

\* the condition of a compare or branch instruction, by signedness
Less ==
    CASE Done.op \in {"Slt", "Blt", "Bge"}    -> Signed(Rs1Value) < Signed(Rs2Value)
      [] Done.op = "Slti"                     -> Signed(Rs1Value) < Done.imm
      [] Done.op \in {"Sltu", "Bltu", "Bgeu"} -> Below(Rs1Value, Rs2Value)
      [] Done.op = "Sltiu"                    -> Below(Rs1Value, Imm32)

\* C14 (signedness of comparisons): slt, slti, blt, bge compare as signed
\* 32-bit integers and sltu, sltiu, bltu, bgeu as unsigned ones (sltiu
\* against the sign-extended immediate taken as unsigned); set-less-than
\* writes exactly 1 or 0, and a branch sets PC to (PC + imm) mod 2^32 when
\* its condition holds and to PC + 4 otherwise.
C14_Signedness ==
    [][/\ (SteppedOk /\ Done.op \in {"Slt", "Slti", "Sltu", "Sltiu"} /\ Done.rd # 0) =>
            registers'[Done.rd] = (IF Less THEN <<0, 1>> ELSE <<0, 0>>)
       /\ (SteppedOk /\ Done.op \in {"Blt", "Bltu"}) =>
            pc' = (IF Less THEN wrapping_add(pc, Imm32) ELSE PcPlus4)
       /\ (SteppedOk /\ Done.op \in {"Bge", "Bgeu"}) =>
            pc' = (IF ~Less THEN wrapping_add(pc, Imm32) ELSE PcPlus4)]_vars

\* blt has been taken with rs1 = -1 and rs2 = 1, where bltu is not
C14_Witness ==
    /\ op = "step" /\ outcome = StepOk /\ instruction.ok
    /\ instruction.val.op = "Blt" /\ instruction.val.imm = 8
    /\ registers[1] = <<65535, 65535>> /\ registers[2] = <<0, 1>>
    /\ pc = wrapping_add(TEXT_BASE, U32(8))

Loads == {"Lb", "Lh", "Lw", "Lbu", "Lhu"}

\* the number of bytes a load reads
Width == CASE Done.op \in {"Lb", "Lbu"} -> 1
           [] Done.op \in {"Lh", "Lhu"} -> 2
           [] Done.op = "Lw"            -> 4

\* the address of the k-th byte of the access, k = 0..Width-1
AccessAddr(k) == wrapping_add(wrapping_add(Rs1Value, Imm32), U32(k))

\* the byte the memory holds at the k-th address of the access
AccessByte(k) == read_byte(memory, AccessAddr(k)).val

\* the offsets of the access that lie outside every segment
Outside == { k \in 0..(Width - 1) : ~InSomeSegment(memory, AccessAddr(k)) }

FirstOutside == CHOOSE k \in Outside : \A j \in Outside : k <= j

\* the value a load writes to rd, from the bytes in little-endian order
Loaded ==
    CASE Done.op = "Lb"  -> IF AccessByte(0) >= 128 THEN <<65535, 65280 + AccessByte(0)>>
                            ELSE <<0, AccessByte(0)>>
      [] Done.op = "Lbu" -> <<0, AccessByte(0)>>
      [] Done.op = "Lh"  -> IF AccessByte(1) >= 128 THEN <<65535, AccessByte(1) * 256 + AccessByte(0)>>
                            ELSE <<0, AccessByte(1) * 256 + AccessByte(0)>>
      [] Done.op = "Lhu" -> <<0, AccessByte(1) * 256 + AccessByte(0)>>
      [] Done.op = "Lw"  -> <<AccessByte(3) * 256 + AccessByte(2),
                              AccessByte(1) * 256 + AccessByte(0)>>

\* C15 (load semantics): a load reads at (rs1 + imm) mod 2^32, assembles
\* half and word values little-endian, sign-extends for lb and lh,
\* zero-extends for lbu and lhu, and writes the word unchanged for lw; when
\* a byte address read is outside every segment the step returns
\* MemoryFault(OutOfBounds) with that byte's address and rd is not written.
C15_LoadSemantics ==
    [][(op' = "step" /\ instruction'.ok /\ Done.op \in Loads) =>
          IF Outside = {}
          THEN /\ outcome' = StepOk
               /\ Done.rd # 0 => registers'[Done.rd] = Loaded
          ELSE /\ outcome' = [tag |-> "MemoryFault", fault |-> "OutOfBounds",
                              address |-> AccessAddr(FirstOutside)]
               /\ registers' = registers]_vars

\* lh x3, -1(x1) has read the bytes 0x80, 0xFF at the start of the data
\* segment and written 0xFFFFFF80
C15_Witness ==
    /\ op = "step" /\ outcome = StepOk /\ instruction.ok
    /\ instruction.val.op = "Lh" /\ instruction.val.imm = -1
    /\ registers[1] = <<4097, 1>>
    /\ registers[3] = <<65535, 65408>>

----------------------------------------------------------------------------
\* Properties of the directives.

IsAlign(stmt) == stmt.kind.k = "Directive" /\ stmt.kind.name = ".align"

\* an .align whose operand is missing, is no immediate, or is an immediate k
\* with k < 0 or k >= 32
InvalidAlign(stmt) ==
    /\ IsAlign(stmt)
    /\ \/ ~IsImmediate(stmt.kind.ops, 1)
       \/ stmt.kind.ops[1].v < 0
       \/ stmt.kind.ops[1].v >= 32

\* address is a multiple of 2^k, 0 <= k < 32
MultipleOfPow2(address, k) ==
    IF k <= 16 THEN address[2] % Pow2(k) = 0
    ELSE address[2] = 0 /\ address[1] % Pow2(k - 16) = 0

\* the padding d is less than 2^k
PaddingBelow(d, k) ==
    IF k < 16 THEN d[1] = 0 /\ d[2] < Pow2(k) ELSE d[1] < Pow2(k - 16)

\* C16 as claimed: `.align k` with an immediate k advances the offset of the
\* current section by the smallest d >= 0 that makes the address a multiple
\* of 2^k (seen at a label that follows it); a build of a list with an
\* .align whose operand is missing, no immediate, negative or >= 32
\* returns a symbol-build error, without overflowing or aborting.
C16_AlignDirective ==
    op = "build" =>
        /\ (\E i \in 1..Len(statements) : InvalidAlign(statements[i]))
              => IsError(build_result)
        /\ build_result = Ok("unit") =>
              \A i \in 1..(Len(statements) - 1) :
                 LET n == statements[i + 1].kind.name
                     k == statements[i].kind.ops[1].v
                 IN  (/\ IsAlign(statements[i]) /\ ~InvalidAlign(statements[i])
                      /\ IsLabel(statements[i + 1])
                      /\ FirstDefinition(statements, n) = i + 1)
                     => /\ MultipleOfPow2(Symbols[n], k)
                        /\ PaddingBelow(wrapping_sub(Symbols[n],
                               LabelAddress(statements, i, overflow_checks)), k)

\* the lines assemble reports an error for
ErrorLines ==
    IF asm_result.ok THEN {}
    ELSE { asm_result.err[j].line : j \in 1..Len(asm_result.err) }

\* the bytes the size table gives the directives among the first i
\* statements that occur while section s is current
RECURSIVE SizeTable(_, _, _, _)
SizeTable(stmts, i, s, checks) ==
    IF i = 0 THEN 0
    ELSE SizeTable(stmts, i - 1, s, checks)
         + (IF IsData(stmts[i]) /\ SectionAt(stmts, i) = s
            THEN calculate_directive_size(stmts[i].kind.name, stmts[i].kind.ops,
                     LabelAddress(stmts, i, checks), checks).val[2]
            ELSE 0)

\* the instructions assemble reports no error for
Emitted == { i \in 1..Len(statements) :
                IsInstruction(statements[i]) /\ statements[i].line \notin ErrorLines }

\* C17 as claimed: for every directive other than .text/.data the encoder
\* reports no error and appends, to the output of the section that is
\* current, as many bytes as the size table gives that directive: the text
\* output is the encoded instructions plus the directives of .text, the data
\* output the directives of .data.
C17_DirectiveEmission ==
    (op = "assemble" /\ build_result = Ok("unit")) =>
        /\ \A i \in 1..Len(statements) :
              IsData(statements[i]) => statements[i].line \notin ErrorLines
        /\ Len(assembler.data_bin) =
              SizeTable(statements, Len(statements), ".data", overflow_checks)
        /\ Len(assembler.text_bin) = 4 * Cardinality(Emitted)
              + SizeTable(statements, Len(statements), ".text", overflow_checks)

----------------------------------------------------------------------------
\* The compile pipeline on programs whose branches and jumps name labels.

RelKinds ==
    { Label("a"), ADD_X1_X2_X3,
      Instruction("beq", <<Register(1), Register(2), LabelRef("a")>>),
      Instruction("bne", <<Register(1), Register(2), Immediate(8)>>),
      Instruction("jal", <<Register(1), LabelRef("a")>>),
      Instruction("jal", <<Register(1), LabelRef("b")>>) }

ParseRel == ParseCall(Seqs(RelKinds, MaxAsmStmts))

NextRel == ParseRel \/ BuildCall \/ AssembleCall

SpecRel == Init /\ [][NextRel]_vars

\* a branch or jal whose target operand is a label
IsRelative(stmt) ==
    /\ IsInstruction(stmt)
    /\ stmt.kind.name \in {"beq", "bne", "blt", "bge", "bltu", "bgeu", "jal"}
    /\ stmt.kind.ops # <<>>
    /\ stmt.kind.ops[Len(stmt.kind.ops)].t = "Label"

Target(stmt) == stmt.kind.ops[Len(stmt.kind.ops)].s

\* the word text_bin holds for statement i, an instruction that was emitted
EmittedWord(i) ==
    WordAt(assembler.text_bin, Cardinality({ j \in Emitted : j < i }))

\* C18 as claimed: a branch or jal whose target is a label defined anywhere
\* in the program encodes without error, with the immediate address(L) minus
\* the address of the instruction; a reference to a label that is not in
\* the symbol table is reported as an unknown label on that line.
C18_LabelResolution ==
    (op = "assemble" /\ build_result = Ok("unit")) =>
        \A i \in 1..Len(statements) :
            IsRelative(statements[i]) =>
                IF Target(statements[i]) \in DOMAIN Symbols
                THEN /\ statements[i].line \notin ErrorLines
                     /\ decode(EmittedWord(i)).val.imm =
                           Signed(wrapping_sub(Symbols[Target(statements[i])],
                                      LabelAddress(statements, i, overflow_checks)))
                ELSE /\ ~asm_result.ok
                     /\ \E j \in 1..Len(asm_result.err) :
                           /\ asm_result.err[j].line = statements[i].line
                           /\ asm_result.err[j].message[1] = "Unknown label"

----------------------------------------------------------------------------
\* The lexer (lexer.rs).  A &str is the sequence of its characters, a
\* character a string of length one.

\* char::to_digit for the ASCII digits of radix up to 16
DIGIT ==
    ("0" :> 0) @@ ("1" :> 1) @@ ("2" :> 2) @@ ("3" :> 3) @@ ("4" :> 4) @@ ("5" :> 5) @@ ("6" :> 6) @@ ("7" :> 7) @@
    ("8" :> 8) @@ ("9" :> 9) @@ ("a" :> 10) @@ ("b" :> 11) @@ ("c" :> 12) @@ ("d" :> 13) @@ ("e" :> 14) @@ ("f" :> 15) @@
    ("A" :> 10) @@ ("B" :> 11) @@ ("C" :> 12) @@ ("D" :> 13) @@ ("E" :> 14) @@ ("F" :> 15)

\* char::is_digit(radix)
is_digit(c, radix) == c \in DOMAIN DIGIT /\ DIGIT[c] < radix

\* the digit loop of from_str_radix: acc * radix + d (acc * radix - d for a
\* negative number), an Err when a character is no digit or the result
\* leaves min..max
RECURSIVE digits_value(_, _, _, _, _, _, _)
digits_value(src, i, radix, acc, negative, min, max) ==
    IF i > Len(src) THEN Ok(acc)
    ELSE IF ~is_digit(src[i], radix) THEN Err("InvalidDigit")
    ELSE LET d == DIGIT[src[i]]
         IN  IF negative
             THEN IF acc < (min + d + radix - 1) \div radix THEN Err("NegOverflow")
                  ELSE digits_value(src, i + 1, radix, acc * radix - d, negative, min, max)
             ELSE IF acc > (max - d) \div radix THEN Err("PosOverflow")
                  ELSE digits_value(src, i + 1, radix, acc * radix + d, negative, min, max)

\* T::from_str_radix(src, radix) for an integer type T with the range
\* min..max: an optional sign (no '-' for an unsigned T), then digits
from_str_radix(src, radix, min, max) ==
    IF src = <<>> THEN Err("Empty")
    ELSE LET negative == min < 0 /\ src[1] = "-"
             body     == IF src[1] = "+" \/ negative THEN Tail(src) ELSE src
         IN  IF body = <<>> THEN Err("InvalidDigit")
             ELSE digits_value(body, 1, radix, 0, negative, min, max)

Token(kind, value) == [token |-> kind, value |-> value]

abi_to_register(ident) ==
    LET ABI ==
        (<<"z", "e", "r", "o">> :> 0) @@ (<<"r", "a">> :> 1) @@ (<<"s", "p">> :> 2) @@
        (<<"g", "p">> :> 3) @@ (<<"t", "p">> :> 4) @@ (<<"t", "0">> :> 5) @@ (<<"t", "1">> :> 6) @@
        (<<"t", "2">> :> 7) @@ (<<"s", "0">> :> 8) @@ (<<"f", "p">> :> 8) @@ (<<"s", "1">> :> 9) @@
        (<<"a", "0">> :> 10) @@ (<<"a", "1">> :> 11) @@ (<<"a", "2">> :> 12) @@ (<<"a", "3">> :> 13) @@
        (<<"a", "4">> :> 14) @@ (<<"a", "5">> :> 15) @@ (<<"a", "6">> :> 16) @@ (<<"a", "7">> :> 17) @@
        (<<"s", "2">> :> 18) @@ (<<"s", "3">> :> 19) @@ (<<"s", "4">> :> 20) @@ (<<"s", "5">> :> 21) @@
        (<<"s", "6">> :> 22) @@ (<<"s", "7">> :> 23) @@ (<<"s", "8">> :> 24) @@ (<<"s", "9">> :> 25) @@
        (<<"s", "1", "0">> :> 26) @@ (<<"s", "1", "1">> :> 27) @@ (<<"t", "3">> :> 28) @@
        (<<"t", "4">> :> 29) @@ (<<"t", "5">> :> 30) @@ (<<"t", "6">> :> 31)
    IN  IF ident \in DOMAIN ABI THEN Ok(ABI[ident]) ELSE Err("None")

classify_identifier(ident) ==
    LET num == IF ident[1] = "x" /\ Len(ident) > 1
               THEN from_str_radix(Tail(ident), 10, 0, 255)
               ELSE Err("None")
        reg_num == abi_to_register(ident)
    IN  IF num.ok /\ num.val <= 31 THEN Token("Register", num.val)
        ELSE IF reg_num.ok THEN Token("Register", reg_num.val)
        ELSE IF ident \in {
            <<"a", "d", "d">>, <<"s", "u", "b">>, <<"a", "n", "d">>, <<"o", "r">>,
            <<"x", "o", "r">>, <<"s", "l", "l">>, <<"s", "r", "l">>, <<"s", "r", "a">>,
            <<"s", "l", "t">>, <<"s", "l", "t", "u">>, <<"a", "d", "d", "i">>,
            <<"a", "n", "d", "i">>, <<"o", "r", "i">>, <<"x", "o", "r", "i">>,
            <<"s", "l", "l", "i">>, <<"s", "r", "l", "i">>, <<"s", "r", "a", "i">>,
            <<"s", "l", "t", "i">>, <<"s", "l", "t", "i", "u">>, <<"l", "w">>, <<"s", "w">>,
            <<"b", "e", "q">>, <<"b", "n", "e">>, <<"b", "l", "t">>, <<"b", "g", "e">>,
            <<"j", "a", "l">>, <<"j", "a", "l", "r">> }
        THEN Token("Instruction", ident)
        ELSE Token("Label", ident)

\* the digits read_number takes from the front of chars
RECURSIVE take_digits(_, _)
take_digits(chars, radix) ==
    IF chars # <<>> /\ is_digit(Head(chars), radix)
    THEN <<Head(chars)>> \o take_digits(Tail(chars), radix)
    ELSE <<>>

\* read_number(first_char, chars): the token, and chars as it leaves them;
\* `-val` overflows for val = i32::MIN
read_number(first_char, chars, checks) ==
    LET I32_MAX == 2147483647
        I32_MIN == -2147483647 - 1
        is_negative == first_char = "-"
        next_digit  == IF ~is_negative THEN first_char
                       ELSE IF chars # <<>> THEN Head(chars) ELSE " "
        after_sign  == IF is_negative /\ chars # <<>> THEN Tail(chars) ELSE chars
        prefixed    == next_digit = "0" /\ after_sign # <<>>
        prefix      == IF prefixed THEN Head(after_sign) ELSE " "
        radix       == CASE prefixed /\ prefix \in {"x", "X"} -> 16
                         [] prefixed /\ prefix \in {"b", "B"} -> 2
                         [] prefixed /\ prefix \in {"o", "O"} -> 8
                         [] OTHER -> 10
        start       == IF radix # 10 THEN <<>> ELSE <<next_digit>>
        after_start == IF radix # 10 THEN Tail(after_sign) ELSE after_sign
        number_str  == start \o take_digits(after_start, radix)
        parsed      == from_str_radix(number_str, radix, I32_MIN, I32_MAX)
        val         == IF parsed.ok THEN parsed.val ELSE 0           \* unwrap_or(0)
        rest        == SubSeq(after_start, Len(number_str) - Len(start) + 1, Len(after_start))
    IN  IF is_negative /\ val = I32_MIN
        THEN IF checks THEN Panic ELSE [token |-> Token("Immediate", val), rest |-> rest]
        ELSE [token |-> Token("Immediate", IF is_negative THEN -val ELSE val),
              rest |-> rest]


\* The mnemonics of RV32I, as the encoding tables list them.
RV32I == {
    <<"a", "d", "d">>, <<"s", "u", "b">>, <<"s", "l", "l">>, <<"s", "l", "t">>,
    <<"s", "l", "t", "u">>, <<"x", "o", "r">>, <<"s", "r", "l">>, <<"s", "r", "a">>,
    <<"o", "r">>, <<"a", "n", "d">>, <<"a", "d", "d", "i">>, <<"s", "l", "t", "i">>,
    <<"s", "l", "t", "i", "u">>, <<"x", "o", "r", "i">>, <<"o", "r", "i">>,
    <<"a", "n", "d", "i">>, <<"s", "l", "l", "i">>, <<"s", "r", "l", "i">>,
    <<"s", "r", "a", "i">>, <<"l", "b">>, <<"l", "h">>, <<"l", "w">>, <<"l", "b", "u">>,
    <<"l", "h", "u">>, <<"j", "a", "l", "r">>, <<"s", "b">>, <<"s", "h">>, <<"s", "w">>,
    <<"b", "e", "q">>, <<"b", "n", "e">>, <<"b", "l", "t">>, <<"b", "g", "e">>,
    <<"b", "l", "t", "u">>, <<"b", "g", "e", "u">>, <<"l", "u", "i">>,
    <<"a", "u", "i", "p", "c">>, <<"j", "a", "l">>, <<"e", "c", "a", "l", "l">>,
    <<"e", "b", "r", "e", "a", "k">>, <<"f", "e", "n", "c", "e">> }

\* The ABI names of x0 .. x31, in register order; fp is a second name of x8.
ABI_NAMES == <<
    <<"z", "e", "r", "o">>, <<"r", "a">>, <<"s", "p">>, <<"g", "p">>, <<"t", "p">>,
    <<"t", "0">>, <<"t", "1">>, <<"t", "2">>, <<"s", "0">>, <<"s", "1">>, <<"a", "0">>,
    <<"a", "1">>, <<"a", "2">>, <<"a", "3">>, <<"a", "4">>, <<"a", "5">>, <<"a", "6">>,
    <<"a", "7">>, <<"s", "2">>, <<"s", "3">>, <<"s", "4">>, <<"s", "5">>, <<"s", "6">>,
    <<"s", "7">>, <<"s", "8">>, <<"s", "9">>, <<"s", "1", "0">>, <<"s", "1", "1">>,
    <<"t", "3">>, <<"t", "4">>, <<"t", "5">>, <<"t", "6">> >>

Identifiers ==
    RV32I
    \cup { ABI_NAMES[n] : n \in 1..32 } \cup { <<"f", "p">> }
    \cup { <<"x">> \o n : n \in {
            <<"0">>, <<"5">>, <<"3", "1">>, <<"3", "2">>, <<"0", "7">>, <<"2", "5", "5">>,
            <<"2", "5", "6">>, <<"1", "a">> } }
    \cup {
        <<"l", "o", "o", "p">>, <<"m", "a", "i", "n">>, <<"_", "s", "t", "a", "r", "t">>,
        <<"x">>, <<"l", "b", "l">>, <<"a", "d", "d", "x">> }

\* numeric literals: decimal, 0x, 0b and 0o, each also with a leading '-'
Literals ==
    LET Unsigned == {
        <<"0">>, <<"7">>, <<"4", "2">>, <<"0", "0", "7">>,
        <<"2", "1", "4", "7", "4", "8", "3", "6", "4", "7">>,
        <<"2", "1", "4", "7", "4", "8", "3", "6", "4", "8">>,
        <<"4", "2", "9", "4", "9", "6", "7", "2", "9", "5">>,
        <<"9", "9", "9", "9", "9", "9", "9", "9", "9", "9", "9">>,
        <<"0", "x", "0">>, <<"0", "x", "1", "0">>, <<"0", "x", "F", "F">>,
        <<"0", "X", "1", "f">>, <<"0", "x", "7", "f", "f", "f", "f", "f", "f", "f">>,
        <<"0", "x", "8", "0", "0", "0", "0", "0", "0", "0">>,
        <<"0", "x", "F", "F", "F", "F", "F", "F", "F", "F">>,
        <<"0", "b", "0">>, <<"0", "b", "1", "0", "1">>, <<"0", "B", "1", "1">>,
        <<"0", "b", "1", "1", "1", "1", "1", "1", "1", "1", "1", "1", "1", "1", "1", "1", "1", "1", "1", "1", "1", "1", "1", "1", "1", "1", "1", "1", "1", "1", "1", "1", "1">>,
        <<"0", "b", "1", "0", "0", "0", "0", "0", "0", "0", "0", "0", "0", "0", "0", "0", "0", "0", "0", "0", "0", "0", "0", "0", "0", "0", "0", "0", "0", "0", "0", "0", "0", "0">>,
        <<"0", "o", "1", "7">>, <<"0", "O", "7">>,
        <<"0", "o", "1", "7", "7", "7", "7", "7", "7", "7", "7", "7", "7">>,
        <<"0", "o", "2", "0", "0", "0", "0", "0", "0", "0", "0", "0", "0">> }
    IN  Unsigned \cup { <<"-">> \o n : n \in Unsigned }

ClassifyCall ==
    /\ \E ident \in Identifiers :
          /\ arg' = ident
          /\ outcome' = classify_identifier(ident)
    /\ op' = "classify_identifier"
    /\ UNCHANGED appVars
    /\ UNCHANGED <<pc, registers, memory, instruction, nloads, ncalls, overflow_checks,
                   asmVars>>

ReadNumberCall ==
    /\ \E literal \in Literals :
          /\ arg' = literal
          /\ outcome' = read_number(Head(literal), Tail(literal), overflow_checks)
    /\ op' = "read_number"
    /\ UNCHANGED appVars
    /\ UNCHANGED <<pc, registers, memory, instruction, nloads, ncalls, overflow_checks,
                   asmVars>>

NextLex == ClassifyCall \/ ReadNumberCall

SpecLex == Init /\ [][NextLex]_vars

----------------------------------------------------------------------------
\* Properties of the lexer.

\* the number a string of digits denotes, as <<high, low>> 16-bit halves;
\* high = 65536 stands for every number from 2^32 on
RECURSIVE Magnitude(_, _, _)
Magnitude(digits, radix, acc) ==
    IF digits = <<>> THEN acc
    ELSE LET low  == acc[2] * radix + DIGIT[Head(digits)]
             high == acc[1] * radix + low \div 65536
         IN  Magnitude(Tail(digits), radix,
                       <<IF high > 65536 THEN 65536 ELSE high, low % 65536>>)

AllDigits(s, radix) == s # <<>> /\ \A i \in 1..Len(s) : is_digit(s[i], radix)

\* x followed by a decimal integer 0..31
IsXRegister(ident) ==
    /\ Len(ident) > 1 /\ ident[1] = "x" /\ AllDigits(Tail(ident), 10)
    /\ Magnitude(Tail(ident), 10, <<0, 0>>)[1] = 0
    /\ Magnitude(Tail(ident), 10, <<0, 0>>)[2] <= 31

IsAbiAlias(ident) == ident = <<"f", "p">> \/ \E n \in 1..32 : ABI_NAMES[n] = ident

AbiNumber(ident) ==
    IF ident = <<"f", "p">> THEN 8 ELSE (CHOOSE n \in 1..32 : ABI_NAMES[n] = ident) - 1

\* C19 as claimed: an identifier is a Register(n) when it is x followed by an
\* integer 0..31 or an ABI alias, else an Instruction when it is a mnemonic
\* of RV32I, else a Label; no mnemonic is classified as a Label.
C19_IdentifierClassification ==
    op = "classify_identifier" =>
        outcome =
           (CASE IsXRegister(arg) -> Token("Register", Magnitude(Tail(arg), 10, <<0, 0>>)[2])
              [] ~IsXRegister(arg) /\ IsAbiAlias(arg) -> Token("Register", AbiNumber(arg))
              [] ~IsXRegister(arg) /\ ~IsAbiAlias(arg) /\ arg \in RV32I -> Token("Instruction", arg)
              [] OTHER -> Token("Label", arg))

\* the parts of a literal: its sign, its radix, and its digits
LiteralNegative(src) == src[1] = "-"

LiteralBody(src) == IF LiteralNegative(src) THEN Tail(src) ELSE src

LiteralRadix(src) ==
    LET body == LiteralBody(src)
    IN  CASE Len(body) > 2 /\ body[1] = "0" /\ body[2] \in {"x", "X"} -> 16
          [] Len(body) > 2 /\ body[1] = "0" /\ body[2] \in {"b", "B"} -> 2
          [] Len(body) > 2 /\ body[1] = "0" /\ body[2] \in {"o", "O"} -> 8
          [] OTHER -> 10

LiteralDigits(src) ==
    IF LiteralRadix(src) = 10 THEN LiteralBody(src) ELSE Tail(Tail(LiteralBody(src)))

LiteralMagnitude(src) == Magnitude(LiteralDigits(src), LiteralRadix(src), <<0, 0>>)

\* the value of the literal is in -2^31 .. 2^31 - 1
LiteralInRange(src) ==
    LET m == LiteralMagnitude(src)
    IN  m[1] < 32768 \/ (LiteralNegative(src) /\ m = <<32768, 0>>)

LiteralValue(src) ==
    LET m == LiteralMagnitude(src)
    IN  IF LiteralNegative(src) THEN (-m[1]) * 65536 - m[2] ELSE m[1] * 65536 + m[2]

\* C20 as claimed: for a decimal, 0x, 0b or 0o literal with optional '-',
\* the lexer produces Immediate(v), v the value of the literal, whenever the
\* value is in -2^31 .. 2^31 - 1, and reports an error, never an Immediate
\* token, whenever it is not.
C20_NumericLiterals ==
    op = "read_number" =>
        IF LiteralInRange(arg)
        THEN outcome # Panic /\ outcome.token = Token("Immediate", LiteralValue(arg))
        ELSE outcome = Panic \/ outcome.token.token # "Immediate"

----------------------------------------------------------------------------
\* Further properties of step.

\* C24 as claimed: for jalr with rd = rs1 # 0 the new PC is ((the value rs1
\* held before the step + imm) mod 2^32) with bit 0 cleared: the target
\* comes from the old register value, not from the link value written to rd.
C24_JalrAliased ==
    [][(SteppedOk /\ Done.op = "Jalr" /\ Done.rd = Done.rs1 /\ Done.rd # 0) =>
          LET sum == wrapping_add(Rs1Value, Imm32)
          IN  pc' = <<sum[1], sum[2] - (sum[2] % 2)>>]_vars

\* the step just taken returned an error
SteppedErr == op' = "step" /\ outcome' \notin {StepOk, Panic}

\* C25 (no commit on error): a step that returns an error, IllegalInstruction
\* at decode or execute or a MemoryFault at fetch, load or store, leaves the
\* PC and all 32 registers as they were before the step.
C25_NoCommitOnError ==
    [][SteppedErr => (pc' = pc /\ registers' = registers)]_vars

\* lw x3, 1(x1) has faulted at the first byte past the data segment, with
\* the PC still at the instruction and x3 still 0
C25_Witness ==
    /\ op = "step" /\ outcome = OutOfBounds(<<4097, 4>>)
    /\ instruction.ok /\ instruction.val.op = "Lw" /\ instruction.val.imm = 1
    /\ pc = TEXT_BASE /\ registers[3] = ZERO

\* C26 as claimed: an sh or sw that returns a MemoryFault leaves every byte
\* of memory unchanged.
C26_StoresAllOrNothing ==
    [][(op' = "step" /\ instruction'.ok /\ Done.op \in {"Sh", "Sw"}
          /\ outcome'.tag = "MemoryFault")
         => memory' = memory]_vars

\* C29 as claimed: from load on, after every successful step the PC is a
\* multiple of 4; a taken branch, jal or jalr to a target that is not
\* 4-byte aligned does not return Ok.
C29_PcAligned ==
    (op = "step" /\ outcome = StepOk) => pc[2] % 4 = 0

Stores == {"Sb", "Sh", "Sw"}

\* the addresses a store writes
Written ==
    IF Done.op \notin Stores THEN {}
    ELSE { AccessAddr(k) : k \in 0..((CASE Done.op = "Sb" -> 1
                                         [] Done.op = "Sh" -> 2
                                         [] Done.op = "Sw" -> 4) - 1) }

\* the bytes of a segment outside Written are as they were
SegmentKept(before, after, base) ==
    /\ Len(after) = Len(before)
    /\ \A i \in 1..Len(before) :
          wrapping_add(base, U32(i - 1)) \in Written \/ after[i] = before[i]

StackKept ==
    \A i \in DOMAIN memory.stack \cup DOMAIN memory'.stack :
        \/ wrapping_add(memory.stack_base, U32(i)) \in Written
        \/ StackGet(memory'.stack, i) = StackGet(memory.stack, i)

\* C30 (frame of a successful step): a step that returns Ok changes at most
\* the PC, the register rd of the instruction (none for stores and
\* branches) and, for sb/sh/sw only, the 1/2/4 bytes at (rs1 + imm) mod 2^32.
C30_FrameOfStep ==
    [][SteppedOk =>
          /\ \A r \in 0..(NUM_REGISTERS - 1) :
                (HasRd(Done) /\ r = Done.rd) \/ registers'[r] = registers[r]
          /\ SegmentKept(memory.text, memory'.text, memory.text_base)
          /\ SegmentKept(memory.data, memory'.data, memory.data_base)
          /\ StackKept
          /\ memory'.stack_len = memory.stack_len
          /\ <<memory'.text_base, memory'.data_base, memory'.stack_base>>
                = <<memory.text_base, memory.data_base, memory.stack_base>>]_vars

\* sh x2, 0(x1) has written 0xFFFF at the second and third byte of the data
\* segment and left the first and the fourth
C30_Witness ==
    /\ op = "step" /\ outcome = StepOk /\ instruction.ok
    /\ instruction.val.op = "Sh" /\ instruction.val.imm = 0
    /\ registers[1] = <<4097, 1>>
    /\ memory.data = <<128, 255, 255, 127>>

----------------------------------------------------------------------------
\* The encoder and the decoder, one instruction at a time: an instruction
\* statement is encoded as assemble encodes it, and the word is decoded as
\* step decodes it.

EncRegisters == {0, 1, 16, 31}

EncKinds ==
    LET R == EncRegisters
    IN  { Instruction(name, <<Register(rd), Register(rs1), Immediate(imm)>>) :
            name \in {"addi", "lw", "jalr"}, rd \in R, rs1 \in R,
            imm \in {-2048, -1, 0, 1, 2047, 2048} }
        \cup
        { Instruction(name, <<Register(rd), Memory(Immediate(imm), rs1)>>) :
            name \in {"lb", "lh", "lw", "lbu", "lhu", "jalr"}, rd \in {1, 31},
            rs1 \in {0, 16}, imm \in {-4, 0, 2047} }
        \cup
        { Instruction(name, <<Register(rs2), Memory(Immediate(imm), rs1)>>) :
            name \in {"sb", "sw"}, rs2 \in R, rs1 \in R,
            imm \in {-2048, -1, 0, 1, 2047, 2048} }
        \cup
        { Instruction(name, <<Register(rs1), Register(rs2), Immediate(imm)>>) :
            name \in {"beq", "bgeu"}, rs1 \in R, rs2 \in R,
            imm \in {-4096, -2, 0, 3, 2048, 4094, 4096} }
        \cup
        { Instruction("jal", <<Register(rd), Immediate(imm)>>) :
            rd \in R, imm \in {-1048576, -4096, -2, 0, 3, 2048, 1048574, 1048576} }

\* encode_instruction on one statement, with the table as build left it
EncodeCall ==
    /\ op = "new"
    /\ \E kind \in EncKinds :
          /\ statements' = <<Statement(kind, 1)>>
          /\ outcome' = encode_instruction(kind.name, kind.ops, symbol_table, TEXT_BASE)
    /\ op' = "encode"
    /\ UNCHANGED appVars
    /\ UNCHANGED <<pc, registers, memory, arg, instruction, nloads, ncalls,
                   overflow_checks, symbol_table, build_result, assembler, asm_result,
                   nadds>>

\* decode on the word that was encoded
DecodeEncoded ==
    /\ op = "encode"
    /\ outcome.ok
    /\ arg' = outcome.val
    /\ instruction' = decode(outcome.val)
    /\ op' = "decode"
    /\ UNCHANGED appVars
    /\ UNCHANGED <<pc, registers, memory, outcome, nloads, ncalls, overflow_checks,
                   asmVars>>

NextEnc == EncodeCall \/ DecodeEncoded

SpecEnc == Init /\ [][NextEnc]_vars

\* the instruction that was encoded
EncodedKind == statements[1].kind

MemoryShape(ops) ==
    /\ Len(ops) = 2
    /\ ops[1].t = "Register"
    /\ ops[2].t = "Memory"
    /\ ops[2].offset.t = "Immediate"

\* the I-type word: imm[11:0] | rs1 | funct3 | rd | opcode
ITypeWord(imm, rs1, funct3, rd, opcode) ==
    MakeWord((imm % 4096) \div 32, imm % 32, rs1, funct3, rd, opcode)

\* C23: a load or jalr whose operands are [Register(rd), Memory{offset, reg}]
\* encodes without error to the I-type word with imm = offset and rs1 = reg.
C23_MemoryOperandLoads ==
    (/\ op = "encode"
     /\ EncodedKind.name \in {"lb", "lh", "lw", "lbu", "lhu", "jalr"}
     /\ MemoryShape(EncodedKind.ops))
    => /\ outcome.ok
       /\ outcome.val = ITypeWord(EncodedKind.ops[2].offset.v, EncodedKind.ops[2].reg,
                                  I_TYPE[EncodedKind.name][2], EncodedKind.ops[1].n,
                                  I_TYPE[EncodedKind.name][1])

IsEven(n) == n % 2 = 0

\* the register fields and the immediate that the operands of the encoded
\* instruction give, when the immediate is in the range of its format
Fields ==
    LET ops == EncodedKind.ops
    IN  CASE EncodedKind.name \in DOMAIN I_TYPE /\ ~MemoryShape(ops) ->
                [rd |-> ops[1].n, rs1 |-> ops[2].n, imm |-> ops[3].v,
                 in_range |-> ops[3].v \in -2048..2047]
          [] EncodedKind.name \in DOMAIN S_TYPE ->
                [rs2 |-> ops[1].n, rs1 |-> ops[2].reg, imm |-> ops[2].offset.v,
                 in_range |-> ops[2].offset.v \in -2048..2047]
          [] EncodedKind.name \in DOMAIN B_TYPE ->
                [rs1 |-> ops[1].n, rs2 |-> ops[2].n, imm |-> ops[3].v,
                 in_range |-> ops[3].v \in -4096..4094 /\ IsEven(ops[3].v)]
          [] EncodedKind.name = "jal" ->
                [rd |-> ops[1].n, imm |-> ops[2].v,
                 in_range |-> ops[2].v \in -1048576..1048574 /\ IsEven(ops[2].v)]

\* C28: for an immediate in the range of its format, the decoded word of an
\* I-type, S-type, B-type or J-type instruction has the immediate and the
\* register fields that were encoded.
C28_ImmediateRoundTrip ==
    (op = "decode" /\ Fields.in_range)
    => /\ instruction.ok
       /\ \A f \in DOMAIN Fields \ {"in_range"} :
             /\ f \in DOMAIN instruction.val
             /\ instruction.val[f] = Fields[f]

C28_Witness ==
    /\ op = "decode"
    /\ EncodedKind = Instruction("beq", <<Register(31), Register(16), Immediate(2048)>>)
    /\ instruction = Ok([op |-> "Beq", rs1 |-> 31, rs2 |-> 16, imm |-> 2048])

----------------------------------------------------------------------------
\* The layout of the two passes.

\* the locals of build when it reaches statement i
BuildAt(i) ==
    build_loop(BuildStart(SymbolTable_new(TEXT_BASE, DATA_BASE)),
               SubSeq(statements, 1, i - 1), 1, overflow_checks)

\* the locals of assemble, and its outputs, when it reaches statement i
AssembleAt(i) ==
    assemble_loop(AssembleStart(Assembler_new), SubSeq(statements, 1, i - 1), 1,
                  symbol_table)

\* C27: when build and assemble both succeed, at every statement the two
\* passes have the same current section and the same text and data addresses,
\* and the address of each label is the base of its section plus the number
\* of bytes assemble has placed in the output of that section before it.
C27_PassesAgreeOnLayout ==
    BothPassesSucceeded =>
        \A i \in 1..Len(statements) :
            LET b == BuildAt(i)
                a == AssembleAt(i)
                placed == IF a.current_section = ".text" THEN a.self.text_bin
                          ELSE a.self.data_bin
            IN  /\ a.current_section = b.current_section
                /\ a.current_pc = wrapping_add(TEXT_BASE, b.text_offset)
                /\ a.data_pc = wrapping_add(DATA_BASE, b.data_offset)
                /\ IsLabel(statements[i]) =>
                      Symbols[statements[i].kind.name] =
                          wrapping_add(SectionBase(a.current_section), U32(Len(placed)))

----------------------------------------------------------------------------
\* parser.rs.  A Parser value is the record [tokens, position]; tokens is the
\* sequence of SpannedToken values [token, line], the last of them Eof, and
\* position counts from 0.  A token is a record with its variant in t and,
\* as an operand has, its number in n, its value in v or its text in s.

SpannedToken(token, line) == [token |-> token, line |-> line]

Parser_new(tokens) == [tokens |-> tokens, position |-> 0]

peek(self) == self.tokens[self.position + 1].token

is_at_end(self) == peek(self).t = "Eof"

\* discriminant(self.peek()) == discriminant(expected)
check(self, expected) ==
    IF is_at_end(self) THEN FALSE ELSE peek(self).t = expected

\* the parser after advance; the token advance returns is previous of it
advance(self) ==
    IF ~is_at_end(self) THEN [self EXCEPT !.position = @ + 1] ELSE self

previous(self) == self.tokens[self.position].token

\* the Err of consume
ConsumeError(self, error_message) ==
    Err(<<"Error on line", self.tokens[self.position + 1].line, error_message,
          "Found", peek(self)>>)

\* the rest of a memory operand, from the token after the offset
memory_operand(self, offset, plain) ==
    IF check(self, "LParenthesis")
    THEN LET p2 == advance(self)
         IN  IF ~check(p2, "Register")
             THEN [p |-> p2,
                   res |-> ConsumeError(p2,
                       "A register was expected inside parentheses for memory addressing")]
             ELSE LET p3  == advance(p2)
                      reg == previous(p3).n
                  IN  IF ~check(p3, "RParenthesis")
                      THEN [p |-> p3,
                            res |-> ConsumeError(p3,
                                "Right parenthesis expected after base register")]
                      ELSE [p |-> advance(p3), res |-> Ok(Memory(offset, reg))]
    ELSE [p |-> self, res |-> Ok(plain)]

parse_operand(self) ==
    LET current_token == peek(self)
    IN  CASE current_token.t = "Register" ->
                [p |-> advance(self), res |-> Ok(Register(current_token.n))]
          [] current_token.t = "Immediate" ->
                memory_operand(advance(self), Immediate(current_token.v),
                               Immediate(current_token.v))
          [] current_token.t = "Label" ->
                memory_operand(advance(self), LabelRef(current_token.s),
                               LabelRef(current_token.s))
          [] OTHER ->
                [p |-> self,
                 res |-> Err(<<"An operand was expected (register, inmediate or label), but was not found",
                               current_token>>)]

parse_directive_operand(self) ==
    LET token == peek(self)
    IN  IF token.t = "StringLiteral"
        THEN [p |-> advance(self), res |-> Ok(StringLiteral(token.s))]
        ELSE parse_operand(self)

\* one operand, of an instruction or of a directive
operand(self, directive) ==
    IF directive THEN parse_directive_operand(self) ELSE parse_operand(self)

\* while self.check(&Token::Comma) { self.advance(); operands.push(..?) }
RECURSIVE more_operands(_, _, _)
more_operands(self, operands, directive) ==
    IF check(self, "Comma")
    THEN The({ IF r.res.ok
               THEN more_operands(r.p, Append(operands, r.res.val), directive)
               ELSE r :
               r \in {operand(advance(self), directive)} })
    ELSE [p |-> self, res |-> Ok(operands)]

\* the operand list of an instruction or a directive, from the token after
\* the mnemonic
parse_operands(self, directive) ==
    IF ~check(self, "Newline") /\ ~is_at_end(self)
    THEN The({ IF r.res.ok THEN more_operands(r.p, <<r.res.val>>, directive) ELSE r :
               r \in {operand(self, directive)} })
    ELSE [p |-> self, res |-> Ok(<<>>)]

Some(x) == [tag |-> "some", val |-> x]

parse_line(self) ==
    IF is_at_end(self) THEN [p |-> self, res |-> Ok(None)]
    ELSE LET current_token == peek(self)
             line == self.tokens[self.position + 1].line
             p1   == advance(self)
         IN  CASE current_token.t = "Label" ->
                     IF check(p1, "Colon")
                     THEN [p |-> advance(p1),
                           res |-> Ok(Some(Statement(Label(current_token.s), line)))]
                     ELSE [p |-> p1,
                           res |-> ConsumeError(p1,
                               "A colon is expected after a label (':')")]
               [] current_token.t = "Instruction" ->
                     The({ IF r.res.ok
                           THEN [p |-> r.p,
                                 res |-> Ok(Some(Statement(
                                     Instruction(current_token.s, r.res.val), line)))]
                           ELSE r :
                           r \in {parse_operands(p1, FALSE)} })
               [] current_token.t = "Directive" ->
                     The({ IF r.res.ok
                           THEN [p |-> r.p,
                                 res |-> Ok(Some(Statement(
                                     Directive(current_token.s, r.res.val), line)))]
                           ELSE r :
                           r \in {parse_operands(p1, TRUE)} })
               [] current_token.t = "Newline" -> [p |-> p1, res |-> Ok(None)]
               [] OTHER ->
                     [p |-> self, res |-> Err(<<"Unexpected token", current_token>>)]

\* the loop of parse
RECURSIVE parse_loop(_, _)
parse_loop(self, nodes) ==
    IF is_at_end(self) THEN [p |-> self, res |-> Ok(nodes)]
    ELSE The({ IF ~r.res.ok THEN r
               ELSE IF r.res.val.tag = "none" THEN parse_loop(r.p, nodes)
               ELSE parse_loop(r.p, Append(nodes, r.res.val.val)) :
               r \in {parse_line(self)} })

\* Parser::parse: the parser as it is left, and what parse returns
parse(self) == parse_loop(self, <<>>)

\* The tokens of the exploration, and the streams made of them, with the
\* line numbers and the final Eof that tokenize gives.
TokenAlphabet ==
    << [t |-> "Instruction", s |-> "add"], [t |-> "Register", n |-> 1],
       [t |-> "Immediate", v |-> 4], [t |-> "Label", s |-> "a"], [t |-> "Colon"],
       [t |-> "Directive", s |-> ".word"], [t |-> "StringLiteral", s |-> "hi"],
       [t |-> "Comma"], [t |-> "LParenthesis"], [t |-> "RParenthesis"],
       [t |-> "Newline"] >>

\* the line of the token at index j of a stream: 1 plus the Newline tokens before it
LineOf(stream, j) ==
    1 + Cardinality({ i \in 1..(j - 1) : stream[i].t = "Newline" })

\* the first n tokens of tokenize on the text of stream; the token after
\* the last of stream is Eof
RECURSIVE Spanned(_, _)
Spanned(stream, n) ==
    IF n = 0 THEN <<>>
    ELSE Append(Spanned(stream, n - 1),
                SpannedToken(IF n <= Len(stream) THEN stream[n] ELSE [t |-> "Eof"],
                             LineOf(stream, n)))

tokenize(stream) == Spanned(stream, Len(stream) + 1)

\* Parser::new(tokens).parse()
ParserCall ==
    /\ op = "new"
    /\ \E ix \in Seqs(1..Len(TokenAlphabet), MaxTokens) :
          \E r \in {parse(Parser_new(tokenize([j \in 1..Len(ix) |-> TokenAlphabet[ix[j]]])))} :
              /\ arg' = r.p
              /\ outcome' = r.res
              /\ statements' = IF r.res.ok THEN r.res.val ELSE statements
    /\ op' = "parse"
    /\ UNCHANGED appVars
    /\ UNCHANGED <<pc, registers, memory, instruction, nloads, ncalls, overflow_checks,
                   symbol_table, build_result, assembler, asm_result, nadds>>

NextParse == ParserCall

SpecParse == Init /\ [][NextParse]_vars

\* C21: parse returns Ok only if every instruction and directive statement
\* is followed at once by a Newline or by the end of the input, that is, no
\* statement begins on the line of the instruction or directive before it.
C21_StatementTermination ==
    (op = "parse" /\ outcome.ok) =>
        \A i \in 1..(Len(outcome.val) - 1) :
            outcome.val[i].kind.k \in {"Instruction", "Directive"} =>
                outcome.val[i + 1].line > outcome.val[i].line

----------------------------------------------------------------------------
\* tui.rs: run_app, one action for each key it handles.  The keys that only
\* change what is drawn (F9, the scrolling of the register and memory panes)
\* are left out, and so is Esc, after which run_app handles nothing.

\* the entries of App.logs
LoadedLog       == [log |-> "Assembly successful! CPU reset and loaded."]
CompileError(e) == [log |-> "Compile Error", e |-> e]
Halted(e)       == [log |-> "Halted", e |-> e]

\* the App, and what the handler in progress has done with its processor
App ==
    [processor |-> Self, mode |-> mode, logs |-> logs, outcome |-> outcome,
     instruction |-> instruction, op |-> op, loaded |-> FALSE, stepped |-> FALSE]

\* compile_and_load from the assembler on: the statements are parsed and the
\* symbol table is built
assemble_and_load(app, stmts, sym_table) ==
    The({ IF ~asm.res.ok THEN [app |-> app, res |-> Err([lines |-> asm.res.err])]
          ELSE [app |-> [app EXCEPT
                   !.processor = load(new(TEXT_BASE, DATA_BASE, STACK_BASE, STACK_SIZE),
                                      asm.self.text_bin, asm.self.data_bin),
                   !.logs = Append(@, LoadedLog),
                   !.op = "load",
                   !.outcome = [tag |-> "unit"],
                   !.loaded = TRUE],
                res |-> Ok("unit")] :
          asm \in {assemble(Assembler_new, stmts, sym_table)} })

\* compile_and_load from the symbol table on: the statements are parsed
build_and_load(app, stmts, checks) ==
    The({ IF table.res = Panic THEN [app |-> [app EXCEPT !.outcome = Panic], res |-> Panic]
          ELSE IF ~table.res.ok THEN [app |-> app, res |-> Err([message |-> "Symbol error"])]
          ELSE assemble_and_load(app, stmts, table.self) :
          table \in {build(SymbolTable_new(TEXT_BASE, DATA_BASE), stmts, checks)} })

\* compile_and_load: the App as it leaves it, and what it returns
compile_and_load(app, source, checks) ==
    The({ IF ~parsed.ok THEN [app |-> app, res |-> Err([message |-> "Parse error"])]
          ELSE build_and_load(app, parsed.val, checks) :
          parsed \in {parse(Parser_new(tokenize(source))).res} })

\* if app.mode == RunMode::Editing { if let Err(e) = compile_and_load(..) {
\*     app.logs.push(..); continue; } }: the App, and whether the handler goes on
compile_if_editing(app, source, checks) ==
    IF app.mode # "Editing" THEN [app |-> app, goes_on |-> TRUE]
    ELSE The({ IF c.res = Panic THEN [app |-> c.app, goes_on |-> FALSE]
               ELSE IF ~c.res.ok
               THEN [app |-> [app EXCEPT !.logs = Append(@, CompileError(c.res.err))],
                     goes_on |-> FALSE]
               ELSE [app |-> c.app, goes_on |-> TRUE] :
               c \in {compile_and_load(app, source, checks)} })

\* match app.processor.step() { Ok(_) => {} Err(e) => { app.logs.push(..);
\* app.mode = RunMode::Editing; } }
step_or_halt(app, checks) ==
    The({ IF s.res \in {StepOk, Panic}
          THEN [app EXCEPT !.processor = s.p, !.outcome = s.res,
                           !.instruction = s.instr, !.op = "step", !.stepped = TRUE]
          ELSE [app EXCEPT !.processor = s.p, !.outcome = s.res,
                           !.instruction = s.instr, !.op = "step", !.stepped = TRUE,
                           !.logs = Append(@, Halted(s.res)), !.mode = "Editing"] :
          s \in {step(app.processor, checks)} })

\* the App after the handler, with what the handler did in arg
Handled(app) ==
    /\ Become(app.processor)
    /\ mode' = app.mode
    /\ logs' = app.logs
    /\ outcome' = app.outcome
    /\ instruction' = app.instruction
    /\ op' = app.op
    /\ arg' = [loaded |-> app.loaded, stepped |-> app.stepped]

\* run_app reads a key: no handler is in progress and the process is alive
ReadsKey == Alive /\ handler = "none" /\ Len(logs) < MaxLogs

TabKey ==
    /\ ReadsKey
    /\ active_pane' = CASE active_pane = "Editor"    -> "Registers"
                        [] active_pane = "Registers" -> "Memory"
                        [] active_pane = "Memory"    -> "Logs"
                        [] active_pane = "Logs"      -> "Editor"
    /\ Handled(App)
    /\ UNCHANGED <<editor, handler, nloads, ncalls, overflow_checks, asmVars>>

F2Key ==
    /\ ReadsKey
    /\ \E c \in {compile_if_editing(App, editor, overflow_checks)} : Handled(c.app)
    /\ UNCHANGED <<editor, active_pane, handler, nloads, ncalls, overflow_checks,
                   asmVars>>

\* F5 up to the run loop
F5Key ==
    /\ ReadsKey
    /\ \E c \in {compile_if_editing(App, editor, overflow_checks)} :
          IF c.goes_on
          THEN Handled([c.app EXCEPT !.mode = "Running"]) /\ handler' = "F5"
          ELSE Handled(c.app) /\ handler' = handler
    /\ UNCHANGED <<editor, active_pane, nloads, ncalls, overflow_checks, asmVars>>

\* the run loop that never breaks
F5Loop_without_break ==
    /\ Alive
    /\ handler = "F5"
    /\ \E a \in {step_or_halt(App, overflow_checks)} : Handled(a)
    /\ UNCHANGED <<editor, active_pane, handler, nloads, ncalls, overflow_checks,
                   asmVars>>

\* one iteration of the run loop of F5
F5Loop ==
    /\ Alive
    /\ handler = "F5"
    /\ \E a \in {step_or_halt(App, overflow_checks)} :
          /\ Handled(a)
          /\ handler' = IF a.outcome \in {StepOk, Panic} THEN "F5" ELSE "none"
    /\ UNCHANGED <<editor, active_pane, nloads, ncalls, overflow_checks, asmVars>>

F10Key ==
    /\ ReadsKey
    /\ \E c \in {compile_if_editing(App, editor, overflow_checks)} :
          IF c.goes_on
          THEN \E a \in {step_or_halt(
                            [c.app EXCEPT !.mode = IF mode = "Editing" THEN "Stepping"
                                                   ELSE @],
                            overflow_checks)} : Handled(a)
          ELSE Handled(c.app)
    /\ UNCHANGED <<editor, active_pane, handler, nloads, ncalls, overflow_checks,
                   asmVars>>

\* The texts of the editor, as token streams.
Sources ==
    LET T(kind) == [t |-> kind]
        I(name) == [t |-> "Instruction", s |-> name]
        R(n)    == [t |-> "Register", n |-> n]
        V(v)    == [t |-> "Immediate", v |-> v]
        L(name) == [t |-> "Label", s |-> name]
    IN  { <<>>,
          \* addi x1, x0, 1 / addi x1, x1, 1
          << I("addi"), R(1), T("Comma"), R(0), T("Comma"), V(1), T("Newline"),
             I("addi"), R(1), T("Comma"), R(1), T("Comma"), V(1) >>,
          \* jal x0, 0
          << I("jal"), R(0), T("Comma"), V(0) >>,
          \* sw x1, 0(x0)
          << I("sw"), R(1), T("Comma"), V(0), T("LParenthesis"), R(0),
             T("RParenthesis") >>,
          << I("ecall") >>,
          << I("fence") >>,
          \* add add
          << I("add"), I("add") >>,
          \* a: a:
          << L("a"), T("Colon"), L("a"), T("Colon") >>,
          << I("mul") >> }

\* a key in the editor pane
EditorKey ==
    /\ ReadsKey
    /\ active_pane = "Editor"
    /\ editor' \in Sources
    /\ Handled([App EXCEPT !.mode = "Editing"])
    /\ UNCHANGED <<active_pane, handler, nloads, ncalls, overflow_checks, asmVars>>

NextTui == TabKey \/ F2Key \/ F5Key \/ F5Loop \/ F10Key \/ EditorKey

SpecTui == Init /\ [][NextTui]_vars

\* the entries of a log with the given text
Entries(lg, text) == { i \in 1..Len(lg) : lg[i].log = text }

\* the processor has returned an error and no compile-and-load has replaced
\* it: of the entries a step error and a load leave, the last is a Halted
ReturnedError ==
    LET marks == Entries(logs, "Halted") \cup Entries(logs, LoadedLog.log)
    IN  marks # {} /\ logs[CHOOSE i \in marks : \A j \in marks : j <= i].log = "Halted"

StepFailed == arg'.stepped /\ outcome' \notin {StepOk, Panic}

\* C22: a step error in F5 or F10 appends exactly one Halted entry and sets
\* the mode to Editing; the run loop ends at the first error; the mode is
\* not Running when no handler is in progress; and step is not invoked on a
\* processor that has returned an error unless the handler has loaded a
\* new one first.
C22_HaltOnError ==
    [][/\ StepFailed =>
             /\ Cardinality(Entries(logs', "Halted")) =
                    Cardinality(Entries(logs, "Halted")) + 1
             /\ logs'[Len(logs')] = Halted(outcome')
             /\ mode' = "Editing"
             /\ handler' = "none"
       /\ handler' = "none" => mode' # "Running"
       /\ arg'.stepped => (arg'.loaded \/ ~ReturnedError)]_vars

C22_Witness ==
    /\ handler = "none"
    /\ mode = "Editing"
    /\ arg = [loaded |-> FALSE, stepped |-> TRUE]
    /\ logs = <<LoadedLog, Halted(OutOfBounds(<<64, 8>>))>>
    /\ registers[1] = <<0, 2>>

====
